---- MODULE Spec2Model ----
(***************************************************************************)
(* Layered keymap engine of the XP-Pen ACK05 translator: the LayerSwitcher *)
(* of src/src/layout/switcher.rs over the Layer / KeyGroup configuration   *)
(* of src/src/layout/layer.rs and keys.rs.                                 *)
(*                                                                         *)
(* Layer ids are 0-based as in the source, so `layers` and `layer_stack`   *)
(* are functions over 0..N-1.  A keymap is a Vec<Vec<Vec<KeymapEvent>>>,   *)
(* modelled as a sequence of sequences of sequences (1-based, hence the    *)
(* +1 in the lookup).  Time is in milliseconds.                            *)
(***************************************************************************)
EXTENDS Integers, Sequences, FiniteSets, TLC

VARIABLES
    cfg,            \* the configuration handed to LayerSwitcher::new
    layer_stack,    \* LayerSwitcher.layer_stack: runtime status of the layers
    presses,        \* LayerSwitcher.presses: recorded presses needing release
    emitted_codes,  \* LayerSwitcher.emitted_codes: FIFO of (key, pressed)
    abort,          \* "none", or why the process stopped: "assert" / "loop"
    now,            \* the monotonic instant handed to the last call
    held,           \* coordinates physically held (pressed, not yet released)
    wellformed,     \* the events since start() were those of a keyboard
    hostDown,       \* keycodes whose most recent emission is a key-down
    unreleased,     \* per (coordinate, keycode): key-downs since its last key-up
    layerPromoted,  \* coordinates whose Khl or Khtl press a long press promoted
    last,           \* the last event processed and how it was resolved
    pair,           \* the last Pressed(k), and whether Released(k) followed at once
    rendered,       \* what the last render() handed to its callback
    state,          \* ChangeDetector.state: button -> (time of press, long sent)
    events,         \* ChangeDetector.events: computed events not yet consumed
    got,            \* what the last ChangeDetector::next() returned
    phase,          \* per stateful button: what the events taken with next() left
    drained         \* every analyze and tick so far found the buffer empty

vars == <<cfg, layer_stack, presses, emitted_codes, abort, now, held,
          wellformed, hostDown, unreleased, layerPromoted, last, pair, rendered,
          state, events,
          got, phase, drained>>

\* the fields of the change detector and what its consumer has seen
detector == <<state, events, got, phase, drained>>

----------------------------------------------------------------------------
(* Bounds of the model *)

\* latest instant an event may carry
MaxTime == 201
\* how many coordinates may be physically held at once
MaxHeld == 2
\* longest press table explored when events are not well formed
MaxPresses == 2
\* events left in the buffer of the change detector when it is called again
MaxBuffered == 1
\* a call is made while fewer than this many key events wait in the queue
MaxQueued == 3
\* latest instant of an event for a key held over several long-press ticks
MaxHeldTime == 402

\* The key press duration threshold to distinguish between tap and hold
HOLD_THRESHOLD_MS == 200

\* by how much the clock may advance between two calls
Steps == {0, HOLD_THRESHOLD_MS, HOLD_THRESHOLD_MS + 1}

----------------------------------------------------------------------------
(* Coordinates and keycodes *)

LAYER_KEY == <<255, 255, 255>>
B01 == <<0, 0, 0>>
B02 == <<0, 0, 1>>
B03 == <<0, 1, 0>>
Coords == {B01, B02, B03}

----------------------------------------------------------------------------
(* KeyGroup (keys.rs) *)

\* G(): a chord, S(): a sequence; .k() / .m() append a key / a mask key
G(keys) == [sequential |-> FALSE, keys |-> keys, mask |-> <<>>]
S(keys) == [sequential |-> TRUE, keys |-> keys, mask |-> <<>>]
M(kg, mask) == [kg EXCEPT !.mask = mask]

----------------------------------------------------------------------------
(* KeymapEvent: the action DSL as switcher.rs matches on it *)

No == [tag |-> "No"]
Inh == [tag |-> "Inh"]
Pass == [tag |-> "Pass"]
Kg(kg) == [tag |-> "Kg", kg |-> kg]
Klong(kshort, klong) == [tag |-> "Klong", kg |-> kshort, kg2 |-> klong]
Khl(k, l) == [tag |-> "Khl", kg |-> k, l |-> l]
Khtl(k, l) == [tag |-> "Khtl", kg |-> k, l |-> l]
Lmove(l) == [tag |-> "Lmove", l |-> l]
Lhold(l) == [tag |-> "Lhold", l |-> l]
Ltap(l) == [tag |-> "Ltap", l |-> l]
Lactivate(l) == [tag |-> "Lactivate", l |-> l]
Ldeactivate(l) == [tag |-> "Ldeactivate", l |-> l]
Ldisable(l) == [tag |-> "Ldisable", l |-> l]
LhtL(l, l2) == [tag |-> "LhtL", l |-> l, l2 |-> l2]
LhtK(l, kg) == [tag |-> "LhtK", l |-> l, kg |-> kg]

\* Option::None
None == [tag |-> "None"]
\* get_key_event_inheritance never returns: an Inh cycle
Hang == [tag |-> "Hang"]

----------------------------------------------------------------------------
(* LayerStatus (types.rs) *)

LayerActive == [s |-> "LayerActive"]
LayerPassthrough == [s |-> "LayerPassthrough"]
LayerDisabled == [s |-> "LayerDisabled"]
LayerActiveUntilKeyRelease(c) == [s |-> "LayerActiveUntilKeyRelease", c |-> c]
LayerActiveUntilKeyReleaseTap(c) == [s |-> "LayerActiveUntilKeyReleaseTap", c |-> c]
LayerActiveUntilAnyKeyPress == [s |-> "LayerActiveUntilAnyKeyPress"]
LayerHoldAndTapToL(c, t, l) == [s |-> "LayerHoldAndTapToL", c |-> c, t |-> t, l |-> l]
LayerHoldAndTapKey(c, t, l) == [s |-> "LayerHoldAndTapKey", c |-> c, t |-> t, l |-> l]

\* KeyReleaseMode
Reverse == "Reverse"
ForceClick == "ForceClick"

----------------------------------------------------------------------------
(* Layer (layer.rs) *)

\* inherit: None
NoParent == -1

Layer(status, inherit, on_active, disable, cells, default) ==
    [status_on_reset |-> status, inherit |-> inherit,
     on_active_keys |-> on_active, disable_active_on_press |-> disable,
     keymap |-> IF Len(cells) = 3
                THEN << << <<cells[1], cells[2]>>, <<cells[3]>> >> >>
                ELSE << <<cells>> >>,
     default_action |-> default]

\* a configuration is a Vec<Layer>, indexed from 0
Cfg3(l0, l1, l2) == [i \in 0..2 |-> CASE i = 0 -> l0 [] i = 1 -> l1 [] OTHER -> l2]

Cfg2(l0, l1) == [i \in 0..1 |-> IF i = 0 THEN l0 ELSE l1]

K(k) == Kg(G(<<k>>))

\* hold layer, Pass to the base layer, Inh from a Disabled parent
\* (basic_layered_layout of the tests)
CfgHold ==
    Cfg3(Layer(LayerActive, NoParent, <<>>, FALSE,
               <<Lhold(1), K("B"), K("A")>>, Pass),
         Layer(LayerPassthrough, 2, <<"SHIFT">>, FALSE,
               <<K("E"), Pass, Inh>>, Pass),
         Layer(LayerDisabled, NoParent, <<>>, FALSE,
               <<K("C"), K("C"), Kg(G(<<"CTRL", "D">>))>>, Pass))

\* dead-key layer (tap_layered_layout of the tests)
CfgTap ==
    Cfg2(Layer(LayerActive, NoParent, <<>>, FALSE,
               <<Ltap(1), K("B"), Kg(S(<<"A", "B">>))>>, Pass),
         Layer(LayerPassthrough, NoParent, <<"SHIFT">>, FALSE,
               <<No, Inh, K("E")>>, Pass))

\* hold layer that lifts its on_active_keys while one of its keys is down,
\* and a key with a mask (layered_layout_with_mask[ed_key] of the tests)
CfgMask ==
    Cfg2(Layer(LayerActive, NoParent, <<>>, FALSE,
               <<Lhold(1), K("B"), No>>, Pass),
         Layer(LayerPassthrough, NoParent, <<"SHIFT">>, TRUE,
               <<K("A"), Kg(M(S(<<"E">>), <<"SHIFT">>)),
                 Kg(M(G(<<"E">>), <<"SHIFT">>))>>, Pass))

\* hold-or-tap to a layer, hold-or-tap to a key group
\* (hold_and_tap_layered_layout, hold_and_tap_keygroup_layered_layout)
CfgHoldTap ==
    Cfg3(Layer(LayerActive, NoParent, <<>>, FALSE,
               <<LhtL(1, 2), LhtK(1, G(<<"CTRL", "A">>)), K("B")>>, Pass),
         Layer(LayerPassthrough, NoParent, <<>>, FALSE,
               <<No, Pass, K("E")>>, Pass),
         Layer(LayerPassthrough, NoParent, <<"SHIFT">>, FALSE,
               <<No, Pass, K("D")>>, Pass))

\* short / long press keys (load_layout of serialization.rs, keys 2 and 9)
CfgLong ==
    Cfg3(Layer(LayerActive, NoParent, <<>>, FALSE,
               <<Klong(G(<<"A">>), G(<<"CTRL", "B">>)),
                 Khl(G(<<"C">>), 1), Khtl(G(<<"D">>), 2)>>, Pass),
         Layer(LayerPassthrough, NoParent, <<"SHIFT">>, TRUE,
               <<K("E"), Ldeactivate(1), Pass>>, Pass),
         Layer(LayerPassthrough, NoParent, <<>>, FALSE,
               <<K("E"), Pass, Pass>>, Pass))

\* explicit layer transitions
CfgMove ==
    Cfg3(Layer(LayerActive, NoParent, <<>>, FALSE,
               <<Lactivate(1), Lmove(2), K("A")>>, Pass),
         Layer(LayerPassthrough, NoParent, <<"SHIFT">>, FALSE,
               <<Pass, Pass, Kg(G(<<"B", "C">>))>>, Pass),
         Layer(LayerPassthrough, NoParent, <<>>, FALSE,
               <<Ldisable(1), Lmove(1), Inh>>, Pass))

\* actions that name the base layer as their target
CfgBase ==
    Cfg2(Layer(LayerActive, NoParent, <<>>, FALSE,
               <<LhtL(1, 0), Khtl(G(<<"A">>), 0), Lhold(1)>>, Pass),
         Layer(LayerPassthrough, NoParent, <<>>, FALSE,
               <<Ldisable(0), Lmove(0), Ldeactivate(0)>>, Pass))

\* layers whose default_action is not Pass, and a keymap shorter than the pad
CfgDefault ==
    Cfg3(Layer(LayerActive, NoParent, <<>>, FALSE,
               <<K("A"), K("B"), K("A")>>, Pass),
         Layer(LayerActive, NoParent, <<>>, FALSE,
               <<Ltap(2), Pass, Ldeactivate(1)>>, K("C")),
         Layer(LayerPassthrough, NoParent, <<"SHIFT">>, FALSE,
               <<Inh, Pass, Ldeactivate(2)>>, No))

\* a tap layer that lifts its on_active_keys for a press, and a coordinate
\* that no layer maps
CfgTapKeys ==
    Cfg2(Layer(LayerActive, NoParent, <<>>, FALSE,
               <<Ltap(1), K("B")>>, Pass),
         Layer(LayerPassthrough, NoParent, <<"SHIFT">>, TRUE,
               <<No, K("E")>>, Pass))

\* an active layer that inherits hold-and-tap and long-press keys from the
\* base layer
CfgInherit ==
    Cfg3(Layer(LayerActive, NoParent, <<>>, FALSE,
               <<LhtK(2, G(<<"CTRL", "A">>)), Klong(G(<<"A">>), G(<<"B">>)),
                 K("B")>>, Pass),
         Layer(LayerActive, 0, <<>>, FALSE,
               <<Inh, Inh, Ldeactivate(2)>>, Pass),
         Layer(LayerPassthrough, NoParent, <<"SHIFT">>, FALSE,
               <<No, Pass, Pass>>, Pass))

\* the hold-and-tap layout on a two-key row, with a group that masks two
\* keys: B03 is not in any keymap
MaskedChord == M(G(<<"B", "C">>), <<"SHIFT", "CTRL">>)

CfgHoldTapKeys ==
    Cfg3(Layer(LayerActive, NoParent, <<>>, FALSE,
               <<LhtL(1, 2), Khl(MaskedChord, 1)>>, Pass),
         Layer(LayerPassthrough, NoParent, <<>>, FALSE,
               <<Kg(MaskedChord), Pass>>, Pass),
         Layer(LayerPassthrough, NoParent, <<"SHIFT">>, FALSE,
               <<Pass, K("D")>>, Pass))

\* two layers that inherit from each other, both Inh at B01
CfgCycle ==
    Cfg3(Layer(LayerActive, NoParent, <<>>, FALSE, <<K("A"), K("B")>>, Pass),
         Layer(LayerActive, 2, <<>>, FALSE, <<Inh, Pass>>, Pass),
         Layer(LayerPassthrough, 1, <<>>, FALSE, <<Inh, Pass>>, Pass))

Configs ==
    <<CfgHold, CfgTap, CfgMask, CfgHoldTap, CfgLong, CfgMove, CfgBase, CfgDefault,
      CfgTapKeys, CfgInherit, CfgHoldTapKeys, CfgCycle>>

layers == cfg
N == Cardinality(DOMAIN layers)

----------------------------------------------------------------------------
(* Sequence helpers *)

Rev(seq) == [i \in 1..Len(seq) |-> seq[Len(seq) + 1 - i]]

\* Vec::swap_remove(idx), idx 1-based here: the last element takes the place
SwapRemove(seq, idx) ==
    IF idx = Len(seq) THEN SubSeq(seq, 1, Len(seq) - 1)
    ELSE [i \in 1..(Len(seq) - 1) |-> IF i = idx THEN seq[Len(seq)] ELSE seq[i]]

----------------------------------------------------------------------------
(* The switcher's mutable fields, threaded through the handlers:           *)
(*   ls = layer_stack, pr = presses, em = emissions appended by this call  *)

\* emit_keycodes(coords, k, pressed) for every key of `keys`, in order; the
\* coordinate, which the source passes and does not queue, is kept in em
Emit(s, coords, keys, pressed) ==
    [s EXCEPT !.em = @ \o [i \in 1..Len(keys) |-> <<keys[i], pressed, coords>>]]

SetStatus(s, idx, st) == [s EXCEPT !.ls[idx].status = st]
SetActiveKeys(s, idx, b) == [s EXCEPT !.ls[idx].active_keys = b]

IsInactive(st) == st = LayerDisabled \/ st = LayerPassthrough

\* Layer::get_key_event
LayerGetKeyEvent(layer, coords) ==
    IF /\ coords[1] + 1 \in DOMAIN layer.keymap
       /\ coords[2] + 1 \in DOMAIN layer.keymap[coords[1] + 1]
       /\ coords[3] + 1 \in DOMAIN layer.keymap[coords[1] + 1][coords[2] + 1]
    THEN layer.keymap[coords[1] + 1][coords[2] + 1][coords[3] + 1]
    ELSE layer.default_action

on_layer_activation(s, idx) ==
    SetActiveKeys(Emit(s, LAYER_KEY, layers[idx].on_active_keys, TRUE), idx, TRUE)

on_layer_deactivation(s, idx) ==
    IF ~s.ls[idx].active_keys THEN s
    ELSE Emit(s, LAYER_KEY, layers[idx].on_active_keys, FALSE)

before_key_press(s, layer) ==
    IF layers[layer].disable_active_on_press /\ s.ls[layer].active_keys
    THEN SetActiveKeys(Emit(s, LAYER_KEY, Rev(layers[layer].on_active_keys), FALSE),
                       layer, FALSE)
    ELSE s

after_key_release(s, layer) ==
    IF IsInactive(s.ls[layer].status) THEN s
    ELSE IF ~layers[layer].disable_active_on_press THEN s
    ELSE IF s.ls[layer].active_keys THEN s
    ELSE SetActiveKeys(Emit(s, LAYER_KEY, layers[layer].on_active_keys, TRUE), layer, TRUE)

layer_deactivate(s, idx) ==
    IF idx = 0 THEN s
    ELSE IF s.ls[idx].status = LayerDisabled THEN s
    ELSE IF s.ls[idx].status = LayerPassthrough THEN s
    ELSE on_layer_deactivation(SetStatus(s, idx, LayerPassthrough), idx)

layer_disable(s, idx) ==
    IF idx = 0 THEN s
    ELSE IF s.ls[idx].status = LayerDisabled THEN s
    ELSE SetStatus(IF s.ls[idx].status # LayerPassthrough
                   THEN layer_deactivate(s, idx) ELSE s,
                   idx, LayerDisabled)

layer_activate(s, idx) ==
    IF s.ls[idx].status = LayerDisabled THEN s
    ELSE IF s.ls[idx].status = LayerActive THEN s
    ELSE on_layer_activation(SetStatus(s, idx, LayerActive), idx)

\* the guard shared by layer_hold, layer_tap, layer_hold_tap, layer_hold_key
ActivateAs(s, idx, st) ==
    IF s.ls[idx].status = LayerDisabled THEN s
    ELSE IF s.ls[idx].status # LayerPassthrough THEN s
    ELSE on_layer_activation(SetStatus(s, idx, st), idx)

layer_hold(s, idx, coords) ==
    ActivateAs(s, idx, LayerActiveUntilKeyRelease(coords))

layer_tap(s, idx, coords) ==
    ActivateAs(s, idx, LayerActiveUntilKeyReleaseTap(coords))

layer_hold_tap(s, idx, idx2, coords, t) ==
    ActivateAs(s, idx, LayerHoldAndTapToL(coords, t, idx2))

layer_hold_key(s, activate_idx, coords, t, key_layer) ==
    ActivateAs(s, activate_idx, LayerHoldAndTapKey(coords, t, key_layer))

\* the loop of layer_move: one pass per layer of the stack other than idx,
\* each pass calling layer_deactivate(idx) as the source does
RECURSIVE MoveLoop(_, _, _)
MoveLoop(s, idx, l_idx) ==
    IF l_idx >= N THEN s
    ELSE MoveLoop(IF idx = l_idx THEN s ELSE layer_deactivate(s, idx), idx, l_idx + 1)

layer_move(s, idx) ==
    IF s.ls[idx].status = LayerDisabled THEN s
    ELSE layer_activate(MoveLoop(s, idx, 0), idx)

----------------------------------------------------------------------------
(* Key groups *)

\* a press that stops after the first key of the group
PressKeys_first_only(s, kg, coords, i) ==
    IF i > Len(kg.keys) THEN s
    ELSE LET d == Emit(s, coords, <<kg.keys[i]>>, TRUE)
         IN IF kg.sequential THEN Emit(d, coords, <<kg.keys[i]>>, FALSE) ELSE d

\* the key-down of each key, followed at once by its key-up when sequential
RECURSIVE PressKeys(_, _, _, _)
PressKeys(s, kg, coords, i) ==
    IF i > Len(kg.keys) THEN s
    ELSE PressKeys(
           LET d == Emit(s, coords, <<kg.keys[i]>>, TRUE)
           IN IF kg.sequential THEN Emit(d, coords, <<kg.keys[i]>>, FALSE) ELSE d,
           kg, coords, i + 1)

\* a push that leaves two records for the one press
PushPress_twice(s, layer, coords, mode, kg, t) ==
    [s EXCEPT !.pr = Append(Append(@, [layer |-> layer, coords |-> coords,
                                       mode |-> mode, kg |-> kg, t |-> t]),
                            [layer |-> layer, coords |-> coords,
                             mode |-> mode, kg |-> kg, t |-> t])]

PushPress(s, layer, coords, mode, kg, t) ==
    [s EXCEPT !.pr = Append(@, [layer |-> layer, coords |-> coords,
                                mode |-> mode, kg |-> kg, t |-> t])]

\* a press that puts the mask down again in the order it was lifted
keygroup_press_mask_forward(s, kg, coords, srclayer, t, force_click) ==
    LET s1 == before_key_press(s, srclayer)
        s2 == Emit(s1, coords, kg.mask, FALSE)
        s3 == PressKeys(s2, kg, coords, 1)
        s4 == IF ~kg.sequential /\ force_click
              THEN Emit(s3, coords, Rev(kg.keys), FALSE) ELSE s3
    IN IF kg.sequential \/ force_click
       THEN after_key_release(Emit(s4, coords, kg.mask, TRUE), srclayer)
       ELSE PushPress(s4, srclayer, coords, Reverse, kg, t)

keygroup_press(s, kg, coords, srclayer, t, force_click) ==
    LET s1 == before_key_press(s, srclayer)
        s2 == Emit(s1, coords, kg.mask, FALSE)
        s3 == PressKeys(s2, kg, coords, 1)
        s4 == IF ~kg.sequential /\ force_click
              THEN Emit(s3, coords, Rev(kg.keys), FALSE) ELSE s3
    IN IF kg.sequential \/ force_click
       THEN after_key_release(Emit(s4, coords, Rev(kg.mask), TRUE), srclayer)
       ELSE PushPress(s4, srclayer, coords, Reverse, kg, t)

\* a release that looks at the status of the source layer
keygroup_release_of_active(s, kg, coords, srclayer) ==
    IF kg.sequential \/ IsInactive(s.ls[srclayer].status) THEN s
    ELSE after_key_release(
           Emit(Emit(s, coords, Rev(kg.keys), FALSE), coords, Rev(kg.mask), TRUE),
           srclayer)

\* a release that lifts the keys in the order they went down
keygroup_release_forward(s, kg, coords, srclayer) ==
    IF kg.sequential THEN s
    ELSE after_key_release(
           Emit(Emit(s, coords, kg.keys, FALSE), coords, Rev(kg.mask), TRUE),
           srclayer)

keygroup_release(s, kg, coords, srclayer) ==
    IF kg.sequential THEN s
    ELSE after_key_release(
           Emit(Emit(s, coords, Rev(kg.keys), FALSE), coords, Rev(kg.mask), TRUE),
           srclayer)

\* active_keys_from_layer
active_keys_from_layer(pr, layer) ==
    Cardinality({i \in 1..Len(pr) : pr[i].layer = layer})

----------------------------------------------------------------------------
(* Resolution *)

\* get_key_event_inheritance: <<layer id, event>>.  `seen` holds the layers
\* already visited through Inh; the loop of the source keeps no such set and
\* never leaves a cycle, which is reported here as Hang.
RECURSIVE InheritLoop(_, _, _, _)
InheritLoop(coords, idx, layer_idx, seen) ==
    LET ev == LayerGetKeyEvent(layers[layer_idx], coords)
    IN CASE ev.tag = "Inh" ->
              IF layers[layer_idx].inherit # NoParent
              THEN IF layers[layer_idx].inherit \in seen \cup {layer_idx}
                   THEN <<idx, Hang>>
                   ELSE InheritLoop(coords, idx, layers[layer_idx].inherit,
                                    seen \cup {layer_idx})
              ELSE <<0, layers[layer_idx].default_action>>
         [] ev.tag = "Pass" -> <<0, layers[layer_idx].default_action>>
         [] OTHER -> <<idx, ev>>

get_key_event_inheritance(coords, idx) == InheritLoop(coords, idx, idx, {})

\* a scan that skips the Passthrough layers only
RECURSIVE ScanLayers_disabled_too(_, _, _)
ScanLayers_disabled_too(ls, coords, idx) ==
    IF idx < 0 THEN <<0, None>>
    ELSE IF ls[idx].status = LayerPassthrough
    THEN ScanLayers_disabled_too(ls, coords, idx - 1)
    ELSE LET r == get_key_event_inheritance(coords, idx)
         IN IF r[2] # Pass THEN <<idx, r[2]>>
            ELSE ScanLayers_disabled_too(ls, coords, idx - 1)

\* get_key_event: scan from the top of the stack down; <<layer id, event>>
RECURSIVE ScanLayers(_, _, _)
ScanLayers(ls, coords, idx) ==
    IF idx < 0 THEN <<0, None>>
    ELSE IF IsInactive(ls[idx].status) THEN ScanLayers(ls, coords, idx - 1)
    ELSE LET r == get_key_event_inheritance(coords, idx)
         IN IF r[2] # Pass THEN <<idx, r[2]>>
            ELSE ScanLayers(ls, coords, idx - 1)

get_key_event(ls, coords) == ScanLayers(ls, coords, N - 1)

\* find_press: index (1-based) of the first record for coords, 0 when none
find_press(pr, coords) ==
    IF \E i \in 1..Len(pr) : pr[i].coords = coords
    THEN CHOOSE i \in 1..Len(pr) :
           /\ pr[i].coords = coords
           /\ \A j \in 1..(i - 1) : pr[j].coords # coords
    ELSE 0

\* a listing that begins with the highest layer
RECURSIVE ActiveLoop_rev(_, _, _)
ActiveLoop_rev(ls, idx, active) ==
    IF idx \notin DOMAIN ls THEN active
    ELSE ActiveLoop_rev(ls, idx + 1,
                        IF ls[idx].status # LayerDisabled /\ ls[idx].status # LayerPassthrough
                        THEN <<idx>> \o active ELSE active)

\* the loop of get_active_layers over the enumerated layer_stack
RECURSIVE ActiveLoop(_, _, _)
ActiveLoop(ls, idx, active) ==
    IF idx \notin DOMAIN ls THEN active
    ELSE ActiveLoop(ls, idx + 1,
                    IF ls[idx].status # LayerDisabled /\ ls[idx].status # LayerPassthrough
                    THEN Append(active, idx) ELSE active)

\* get_active_layers
get_active_layers(ls) == ActiveLoop(ls, 0, <<>>)

----------------------------------------------------------------------------
(* The handlers of process_keyevent *)

\* the match of process_keyevent_press on the resolved event
Dispatch(s, ev, coords, srclayer, t) ==
    CASE ev.tag = "Kg" -> keygroup_press(s, ev.kg, coords, srclayer, t, FALSE)
      [] ev.tag \in {"Klong", "Khl", "Khtl"} ->
            PushPress(s, srclayer, coords, ForceClick, ev.kg, t)
      [] ev.tag = "Lmove" -> layer_move(s, ev.l)
      [] ev.tag = "Lhold" -> layer_hold(s, ev.l, coords)
      [] ev.tag = "Ltap" -> layer_tap(s, ev.l, coords)
      [] ev.tag = "Lactivate" -> layer_activate(s, ev.l)
      [] ev.tag = "Ldisable" -> layer_disable(s, ev.l)
      [] ev.tag = "Ldeactivate" -> layer_deactivate(s, ev.l)
      [] ev.tag = "LhtL" -> layer_hold_tap(s, ev.l, ev.l2, coords, t)
      [] ev.tag = "LhtK" -> layer_hold_key(s, ev.l, coords, t, srclayer)
      [] OTHER -> s

\* "Push forward Tap layers": over a clone of the stack taken after dispatch
RECURSIVE RetireTapLayers(_, _, _)
RetireTapLayers(s, snap, idx) ==
    IF idx >= N THEN s
    ELSE RetireTapLayers(
           IF snap[idx].status = LayerActiveUntilAnyKeyPress
           THEN layer_disable(s, idx) ELSE s,
           snap, idx + 1)

process_keyevent_press(s, coords, t) ==
    LET r == get_key_event(s.ls, coords)
    IN IF r[2] = None \/ r[2] = Hang THEN s
       ELSE LET d == Dispatch(s, r[2], coords, r[1], t)
            IN RetireTapLayers(d, d.ls, 0)

\* one arm of the "Deactivate layers" loop of process_keyevent_release
ReleaseLayer(s, st, idx, coords, t) ==
    CASE st.s = "LayerActiveUntilKeyRelease" ->
            IF st.c = coords THEN layer_deactivate(s, idx) ELSE s
      [] st.s = "LayerActiveUntilKeyReleaseTap" ->
            IF st.c = coords
            THEN SetStatus(s, idx, LayerActiveUntilAnyKeyPress) ELSE s
      [] st.s = "LayerHoldAndTapKey" ->
            IF st.c = coords
            THEN LET d == layer_deactivate(s, idx)
                     kev == LayerGetKeyEvent(layers[st.l], st.c)
                 IN IF t - st.t < HOLD_THRESHOLD_MS /\ kev.tag = "LhtK"
                    THEN keygroup_press(d, kev.kg, coords, st.l, t, TRUE)
                    ELSE d
            ELSE s
      [] st.s = "LayerHoldAndTapToL" ->
            IF st.c = coords
            THEN LET d == layer_deactivate(s, idx)
                 IN IF t - st.t < HOLD_THRESHOLD_MS
                    THEN SetStatus(layer_tap(d, st.l, coords), st.l,
                                   LayerActiveUntilAnyKeyPress)
                    ELSE d
            ELSE s
      [] OTHER -> s

RECURSIVE ReleaseLayers(_, _, _, _, _)
ReleaseLayers(s, snap, idx, coords, t) ==
    IF idx >= N THEN s
    ELSE ReleaseLayers(ReleaseLayer(s, snap[idx].status, idx, coords, t),
                       snap, idx + 1, coords, t)

\* the second half of process_keyevent_release: the recorded press
ReleasePress(s, coords, t) ==
    LET i == find_press(s.pr, coords)
    IN IF i = 0 THEN s
       ELSE LET press == s.pr[i]
                s1 == [s EXCEPT !.pr = SwapRemove(@, i)]
                s2 == IF press.mode = ForceClick
                      THEN keygroup_press(s1, press.kg, coords, press.layer, t, TRUE)
                      ELSE keygroup_release(s1, press.kg, coords, press.layer)
            IN after_key_release(s2, press.layer)

process_keyevent_release(s, coords, t) ==
    ReleasePress(ReleaseLayers(s, s.ls, 0, coords, t), coords, t)

\* a long press that promotes Klong without deleting the ForceClick record
process_keyevent_long_press_keeps_record(s, coords, t) ==
    LET i == find_press(s.pr, coords)
    IN IF i = 0 THEN s
       ELSE LET press == s.pr[i]
                ev == LayerGetKeyEvent(layers[press.layer], coords)
                rm == [s EXCEPT !.pr = SwapRemove(@, i)]
            IN IF t - press.t <= HOLD_THRESHOLD_MS THEN s
               ELSE CASE ev.tag = "Klong" ->
                           IF press.mode = ForceClick
                           THEN keygroup_press(s, ev.kg2, coords, press.layer, t, FALSE)
                           ELSE s
                      [] ev.tag = "Khtl" ->
                           SetStatus(layer_tap(rm, ev.l, coords), ev.l,
                                     LayerActiveUntilAnyKeyPress)
                      [] ev.tag = "Khl" -> layer_activate(rm, ev.l)
                      [] OTHER -> s

\* a long press that consults the keymap of the base layer when the press
\* table has no record for the coordinate
process_keyevent_long_press_unrecorded(s, coords, t) ==
    LET i == find_press(s.pr, coords)
    IN IF i = 0
       THEN LET base == LayerGetKeyEvent(layers[0], coords)
            IN IF base.tag = "Khl" THEN layer_activate(s, base.l) ELSE s
       ELSE LET press == s.pr[i]
                ev == LayerGetKeyEvent(layers[press.layer], coords)
                rm == [s EXCEPT !.pr = SwapRemove(@, i)]
            IN IF t - press.t <= HOLD_THRESHOLD_MS THEN s
               ELSE CASE ev.tag = "Klong" ->
                           IF press.mode = ForceClick
                           THEN keygroup_press(rm, ev.kg2, coords, press.layer, t, FALSE)
                           ELSE s
                      [] ev.tag = "Khtl" ->
                           SetStatus(layer_tap(rm, ev.l, coords), ev.l,
                                     LayerActiveUntilAnyKeyPress)
                      [] ev.tag = "Khl" -> layer_activate(rm, ev.l)
                      [] OTHER -> s

\* a long press that takes exactly 200 ms for long already
process_keyevent_long_press_at_threshold(s, coords, t) ==
    LET i == find_press(s.pr, coords)
    IN IF i = 0 THEN s
       ELSE LET press == s.pr[i]
                ev == LayerGetKeyEvent(layers[press.layer], coords)
                rm == [s EXCEPT !.pr = SwapRemove(@, i)]
            IN IF t - press.t < HOLD_THRESHOLD_MS THEN s
               ELSE CASE ev.tag = "Klong" ->
                           IF press.mode = ForceClick
                           THEN keygroup_press(rm, ev.kg2, coords, press.layer, t, FALSE)
                           ELSE s
                      [] ev.tag = "Khtl" ->
                           SetStatus(layer_tap(rm, ev.l, coords), ev.l,
                                     LayerActiveUntilAnyKeyPress)
                      [] ev.tag = "Khl" -> layer_activate(rm, ev.l)
                      [] OTHER -> s

\* a long press that activates the layer of Khl and keeps the record
process_keyevent_long_press_keeps_short(s, coords, t) ==
    LET i == find_press(s.pr, coords)
    IN IF i = 0 THEN s
       ELSE LET press == s.pr[i]
                ev == LayerGetKeyEvent(layers[press.layer], coords)
                rm == [s EXCEPT !.pr = SwapRemove(@, i)]
            IN IF t - press.t <= HOLD_THRESHOLD_MS THEN s
               ELSE CASE ev.tag = "Klong" ->
                           IF press.mode = ForceClick
                           THEN keygroup_press(rm, ev.kg2, coords, press.layer, t, FALSE)
                           ELSE s
                      [] ev.tag = "Khtl" ->
                           SetStatus(layer_tap(rm, ev.l, coords), ev.l,
                                     LayerActiveUntilAnyKeyPress)
                      [] ev.tag = "Khl" -> layer_activate(s, ev.l)
                      [] OTHER -> s

\* a long press that promotes Klong whatever the mode of the record
process_keyevent_long_press_again(s, coords, t) ==
    LET i == find_press(s.pr, coords)
    IN IF i = 0 THEN s
       ELSE LET press == s.pr[i]
                ev == LayerGetKeyEvent(layers[press.layer], coords)
                rm == [s EXCEPT !.pr = SwapRemove(@, i)]
            IN IF t - press.t <= HOLD_THRESHOLD_MS THEN s
               ELSE CASE ev.tag = "Klong" ->
                           keygroup_press(rm, ev.kg2, coords, press.layer, t, FALSE)
                      [] ev.tag = "Khtl" ->
                           SetStatus(layer_tap(rm, ev.l, coords), ev.l,
                                     LayerActiveUntilAnyKeyPress)
                      [] ev.tag = "Khl" -> layer_activate(rm, ev.l)
                      [] OTHER -> s

process_keyevent_long_press(s, coords, t) ==
    LET i == find_press(s.pr, coords)
    IN IF i = 0 THEN s
       ELSE LET press == s.pr[i]
                ev == LayerGetKeyEvent(layers[press.layer], coords)
                rm == [s EXCEPT !.pr = SwapRemove(@, i)]
            IN IF t - press.t <= HOLD_THRESHOLD_MS THEN s
               ELSE CASE ev.tag = "Klong" ->
                           IF press.mode = ForceClick
                           THEN keygroup_press(rm, ev.kg2, coords, press.layer, t, FALSE)
                           ELSE s
                      [] ev.tag = "Khtl" ->
                           SetStatus(layer_tap(rm, ev.l, coords), ev.l,
                                     LayerActiveUntilAnyKeyPress)
                      [] ev.tag = "Khl" -> layer_activate(rm, ev.l)
                      [] OTHER -> s

\* KeyStateChange::Click: press, then release, with the same instant
\* a click that stops after the press
process_keyevent_click_press_only(s, coords, t) ==
    process_keyevent_press(s, coords, t)

process_keyevent_click(s, coords, t) ==
    process_keyevent_release(process_keyevent_press(s, coords, t), coords, t)

----------------------------------------------------------------------------
(* The state machine *)

Null == [tag |-> "Null"]

\* HashMap::new(): no button is tracked
NoButtons == [k \in {} |-> Null]

Cur == [ls |-> layer_stack, pr |-> presses, em |-> <<>>]

\* the (key, pressed) pairs pushed to emitted_codes
Codes(em) == [i \in 1..Len(em) |-> <<em[i][1], em[i][2]>>]

\* the keycodes held down at the host after the emissions em
HostAfter(hd, em) ==
    {k \in hd \cup {em[i][1] : i \in 1..Len(em)} :
       LET at == {i \in 1..Len(em) : em[i][1] = k}
       IN IF at = {} THEN k \in hd
          ELSE em[CHOOSE i \in at : \A j \in at : j <= i][2]}

\* no key-down was emitted yet
NoKeys == [p \in {} |-> 0]

\* the count of key-downs not yet followed by a key-up, per (coordinate,
\* keycode), after the emissions em: a key-down adds one, a key-up takes
\* one away
RECURSIVE UnreleasedAfter(_, _)
UnreleasedAfter(u, em) ==
    IF em = <<>> THEN u
    ELSE LET p == <<em[1][3], em[1][1]>>
             n == IF p \in DOMAIN u THEN u[p] ELSE 0
         IN UnreleasedAfter(
              IF em[1][2]
              THEN [q \in (DOMAIN u \cup {p}) |-> IF q = p THEN n + 1 ELSE u[q]]
              ELSE [q \in (DOMAIN u \ (IF n <= 1 THEN {p} ELSE {})) |->
                      IF q = p THEN n - 1 ELSE u[q]],
              Tail(em))

Started == DOMAIN layer_stack # {}

\* the press record find_press returns for coords, None when there is none
FoundPress(pr, coords) ==
    IF find_press(pr, coords) = 0 THEN None ELSE pr[find_press(pr, coords)]

\* what every call of process_keyevent that passes the assertion shares
Calls(dt) ==
    /\ abort = "none"
    /\ Started
    /\ now + dt <= MaxTime
    /\ now' = now + dt

\* the poll loop of main.rs renders after each call, so the queue is empty
\* when the next call is made
Accepts(dt) == emitted_codes = <<>> /\ Calls(dt)

\* the coordinates whose last press was promoted to a layer, after a call:
\* a long press that found the ForceClick record rec of a Khl or Khtl key
\* past the threshold adds the coordinate, the next press of it removes it
PromotedAfter(kind, coords, rec, pr) ==
    IF /\ kind = "LongPress"
       /\ rec # None
       /\ rec.mode = ForceClick
       /\ now' - rec.t > HOLD_THRESHOLD_MS
       /\ LayerGetKeyEvent(layers[rec.layer], coords).tag \in {"Khl", "Khtl"}
    THEN layerPromoted \cup {coords}
    ELSE IF kind \in {"Pressed", "Click"} THEN layerPromoted \ {coords}
    ELSE layerPromoted

Commit(s, kind, coords, r, rec) ==
    /\ layer_stack' = s.ls
    /\ presses' = s.pr
    /\ emitted_codes' = emitted_codes \o Codes(s.em)
    /\ hostDown' = HostAfter(hostDown, s.em)
    /\ unreleased' = UnreleasedAfter(unreleased, s.em)
    /\ layerPromoted' = PromotedAfter(kind, coords, rec, s.pr)
    /\ last' = [kind |-> kind, k |-> coords, src |-> r[1], act |-> r[2],
                rec |-> rec, out |-> s.em]
    /\ rendered' = rendered
    /\ cfg' = cfg
    /\ UNCHANGED detector

Init ==
    /\ cfg \in {Configs[c] : c \in DOMAIN Configs}
    /\ layer_stack = <<>>
    /\ presses = <<>>
    /\ emitted_codes = <<>>
    /\ abort = "none"
    /\ now = 0
    /\ held = {}
    /\ wellformed = TRUE
    /\ hostDown = {}
    /\ unreleased = NoKeys
    /\ layerPromoted = {}
    /\ last = [kind |-> "new", k |-> LAYER_KEY, src |-> 0, act |-> None,
               rec |-> None, out |-> <<>>]
    /\ pair = Null
    /\ rendered = <<>>
    /\ state = NoButtons
    /\ events = <<>>
    /\ got = Null
    /\ phase = NoButtons
    /\ drained = TRUE

\* a start that leaves a layer Disabled by an earlier Ldisable as it is
start_keeps_disabled ==
    [i \in 0..(N - 1) |->
       IF i > 0 /\ layer_stack # <<>> /\ layer_stack[i].status = LayerDisabled
       THEN layer_stack[i]
       ELSE [status |-> IF i = 0 THEN LayerActive ELSE layers[i].status_on_reset,
             active_keys |-> ~IsInactive(layers[i].status_on_reset)]]

\* LayerSwitcher::start
start ==
    [i \in 0..(N - 1) |->
       [status |-> IF i = 0 THEN LayerActive ELSE layers[i].status_on_reset,
        active_keys |-> ~IsInactive(layers[i].status_on_reset)]]

Start ==
    /\ abort = "none"
    /\ layer_stack' = start
    /\ presses' = <<>>
    /\ emitted_codes' = <<>>
    /\ held' = {}
    /\ wellformed' = TRUE
    /\ hostDown' = {}
    /\ unreleased' = NoKeys
    /\ layerPromoted' = {}
    /\ last' = [kind |-> "start", k |-> LAYER_KEY, src |-> 0, act |-> None,
                rec |-> None, out |-> <<>>]
    /\ pair' = Null
    /\ rendered' = <<>>
    /\ UNCHANGED <<cfg, abort, now>>
    /\ UNCHANGED detector

\* an assertion that fails only after a key event was queued
NotStarted_emits ==
    /\ abort = "none"
    /\ DOMAIN layer_stack = {}
    /\ abort' = "assert"
    /\ emitted_codes' = Append(emitted_codes, <<"A", TRUE>>)
    /\ UNCHANGED <<cfg, layer_stack, presses, now, held, wellformed, hostDown,
                   unreleased, layerPromoted,
                   last, pair, rendered>>
    /\ UNCHANGED detector

\* process_keyevent before start(): the assertion fails
NotStarted ==
    /\ abort = "none"
    /\ ~Started
    /\ abort' = "assert"
    /\ UNCHANGED <<cfg, layer_stack, presses, emitted_codes, now, held,
                   wellformed, hostDown, unreleased, layerPromoted, last, pair,
                   rendered>>
    /\ UNCHANGED detector

\* process_keyevent(KeyStateChange::Pressed(k), now'): what the call does
PressedCall(k) ==
    /\ LET r == get_key_event(layer_stack, k)
           s == process_keyevent_press(Cur, k, now')
       IN /\ Commit(s, "Pressed", k, r, None)
          /\ abort' = IF r[2] = Hang THEN "loop" ELSE "none"
          /\ pair' = [k |-> k, t |-> now', src |-> r[1], act |-> r[2],
                      pout |-> s.em,
                      click |-> IF r[2] = Hang THEN Null
                                ELSE process_keyevent_click(Cur, k, now'),
                      done |-> FALSE, same_t |-> FALSE]
    /\ held' = held \cup {k}
    /\ wellformed' = (wellformed /\ k \notin held)

\* process_keyevent(KeyStateChange::Pressed(k), now + dt), the queue rendered
PressedEv(k, dt) == Accepts(dt) /\ PressedCall(k)

\* process_keyevent(KeyStateChange::Released(k), now'): what the call does
ReleasedCall(k) ==
    /\ Commit(process_keyevent_release(Cur, k, now'), "Released", k,
              <<0, None>>, FoundPress(presses, k))
    /\ held' = held \ {k}
    /\ wellformed' = (wellformed /\ k \in held)
    /\ pair' = IF pair # Null /\ ~pair.done /\ pair.k = k
               THEN [pair EXCEPT !.done = TRUE, !.same_t = (now' = now)]
               ELSE Null
    /\ abort' = abort

\* process_keyevent(KeyStateChange::Released(k), now + dt), the queue rendered
ReleasedEv(k, dt) == Accepts(dt) /\ ReleasedCall(k)

\* process_keyevent(KeyStateChange::Click(k), now'): what the call does
ClickCall(k) ==
    /\ LET r == get_key_event(layer_stack, k)
       IN /\ Commit(IF r[2] = Hang THEN Cur ELSE process_keyevent_click(Cur, k, now'),
                    "Click", k, r, None)
          /\ abort' = IF r[2] = Hang THEN "loop" ELSE "none"
    /\ pair' = Null
    /\ held' = held
    /\ wellformed' = (wellformed /\ k \notin held)

\* process_keyevent(KeyStateChange::Click(k), now + dt), the queue rendered
ClickEv(k, dt) == Accepts(dt) /\ ClickCall(k)

\* process_keyevent(KeyStateChange::LongPress(k), now'): what the call does
LongPressCall(k) ==
    /\ Commit(process_keyevent_long_press(Cur, k, now'), "LongPress", k,
              <<0, None>>, FoundPress(presses, k))
    /\ pair' = Null
    /\ wellformed' = (wellformed /\ k \in held)
    /\ UNCHANGED <<held, abort>>

\* process_keyevent(KeyStateChange::LongPress(k), now + dt), the queue rendered
LongPressEv(k, dt) == Accepts(dt) /\ LongPressCall(k)

\* LayerSwitcher::render
\* a render that hands the queue over from its back
RenderLoop_pop_back(queue, out) ==
    [n \in 1..(Len(out) + Len(queue)) |->
       IF n <= Len(out) THEN out[n] ELSE queue[Len(queue) + 1 - (n - Len(out))]]

\* the loop of render: pop_front, call the renderer, until the queue is empty
RECURSIVE RenderLoop(_, _)
RenderLoop(queue, out) ==
    IF queue = <<>> THEN out
    ELSE RenderLoop(Tail(queue), Append(out, Head(queue)))

Render ==
    /\ abort = "none"
    /\ emitted_codes # <<>>
    /\ rendered' = RenderLoop(emitted_codes, <<>>)
    /\ emitted_codes' = <<>>
    /\ UNCHANGED <<cfg, layer_stack, presses, abort, now, held, wellformed,
                   hostDown, unreleased, layerPromoted, last, pair>>
    /\ UNCHANGED detector

\* the events of a keyboard: a coordinate is pressed, long-pressed while it
\* is held, and released; a click comes from a coordinate that is not held.
\* The switcher reads an instant only to store it with a press or to compare
\* it with a stored one, and the stored ones belong to held coordinates: the
\* clock is advanced by the events of held coordinates.
Pressed == \E k \in Coords :
    k \notin held /\ Cardinality(held) < MaxHeld /\ PressedEv(k, 0)
Released == \E k \in Coords, dt \in Steps : k \in held /\ ReleasedEv(k, dt)
Click == \E k \in Coords : k \notin held /\ ClickEv(k, 0)
LongPress == \E k \in Coords, dt \in Steps : k \in held /\ LongPressEv(k, dt)

Next == Start \/ NotStarted \/ Pressed \/ Released \/ Click \/ LongPress \/ Render

Spec == Init /\ [][Next]_vars

\* any event in any order, as process_keyevent accepts them
\* the two coordinates these events come from
AnyCoords == {B01, B02}

AnyPressed == \E k \in AnyCoords :
    /\ Len(presses) < MaxPresses
    /\ k \in held \/ Cardinality(held) < MaxHeld
    /\ PressedEv(k, 0)
AnyReleased == \E k \in AnyCoords : ReleasedEv(k, 0)
AnyClick == \E k \in AnyCoords : ClickEv(k, 0)
AnyLongPress ==
    \E k \in AnyCoords, dt \in {0, HOLD_THRESHOLD_MS + 1} : LongPressEv(k, dt)

InitAny == Init /\ cfg = CfgLong

NextAny ==
    Start \/ NotStarted \/ AnyPressed \/ AnyReleased \/ AnyClick \/ AnyLongPress
          \/ Render

SpecAny == InitAny /\ [][NextAny]_vars

\* the events of a keyboard handed over without a render after each call:
\* the emissions of several calls wait in the queue
Queues == Len(emitted_codes) < MaxQueued

QueuedPressed == \E k \in Coords :
    k \notin held /\ Cardinality(held) < MaxHeld /\ Queues /\ Calls(0) /\ PressedCall(k)
QueuedReleased == \E k \in Coords :
    k \in held /\ Queues /\ Calls(0) /\ ReleasedCall(k)
QueuedClick == \E k \in Coords :
    k \notin held /\ Queues /\ Calls(0) /\ ClickCall(k)
QueuedLongPress == \E k \in Coords :
    k \in held /\ Queues /\ Calls(HOLD_THRESHOLD_MS + 1) /\ LongPressCall(k)

InitQueued == Init /\ cfg = CfgMask

NextQueued ==
    Start \/ QueuedPressed \/ QueuedReleased \/ QueuedClick \/ QueuedLongPress
          \/ Render

SpecQueued == InitQueued /\ [][NextQueued]_vars

\* the events of keys held long enough for the long-press threshold to pass
\* more than once: each tick of the poll loop brings another LongPress
HeldCalls(dt) ==
    /\ abort = "none"
    /\ Started
    /\ emitted_codes = <<>>
    /\ now + dt <= MaxHeldTime
    /\ now' = now + dt

HeldPressed == \E k \in Coords :
    k \notin held /\ Cardinality(held) < MaxHeld /\ HeldCalls(0) /\ PressedCall(k)
HeldReleased == \E k \in Coords, dt \in {0, HOLD_THRESHOLD_MS + 1} :
    k \in held /\ HeldCalls(dt) /\ ReleasedCall(k)
HeldClick == \E k \in Coords :
    k \notin held /\ HeldCalls(0) /\ ClickCall(k)
HeldLongPress == \E k \in Coords, dt \in {0, HOLD_THRESHOLD_MS + 1} :
    k \in held /\ HeldCalls(dt) /\ LongPressCall(k)

InitHeld == Init /\ cfg = CfgLong

NextHeld ==
    Start \/ HeldPressed \/ HeldReleased \/ HeldClick \/ HeldLongPress \/ Render

SpecHeld == InitHeld /\ [][NextHeld]_vars

----------------------------------------------------------------------------
(* ChangeDetector (kbd_events/mod.rs) over the buttons of xppen_hid/mod.rs *)

\* XpPenButtons, by discriminant: two keys and a tick of the rotary encoder
XpB01 == 0
XpB02 == 1
XpRoCW == 10
Buttons == {XpB01, XpB02, XpRoCW}

\* HasState for XpPenButtons
has_state(k) == k # XpRoCW

\* KeyStateChange<T>
KeyStateChange(kind, k) == [kind |-> kind, k |-> k]

\* the orders in which a HashMap may hand out the keys ks
Orders(ks) ==
    {o \in [1..Cardinality(ks) -> ks] :
       \A a, b \in 1..Cardinality(ks) : o[a] = o[b] => a = b}

\* the order in which an EnumSet hands out the buttons ks: by discriminant
RECURSIVE EnumOrder(_)
EnumOrder(ks) ==
    IF ks = {} THEN <<>>
    ELSE LET m == CHOOSE k \in ks : \A j \in ks : k <= j
         IN <<m>> \o EnumOrder(ks \ {m})

\* a loop of tick for which 200 ms are a long press already
RECURSIVE TickLoop_at_threshold(_, _, _, _)
TickLoop_at_threshold(d, o, n, t) ==
    IF n > Len(o) THEN d
    ELSE LET k == o[n]
         IN TickLoop_at_threshold(
              IF t - d.state[k].t >= HOLD_THRESHOLD_MS
              THEN [state |-> [d.state EXCEPT ![k].long = TRUE],
                    events |-> Append(d.events, KeyStateChange("LongPress", k))]
              ELSE d,
              o, n + 1, t)

\* the loop of tick over the keys in the order o
RECURSIVE TickLoop(_, _, _, _)
TickLoop(d, o, n, t) ==
    IF n > Len(o) THEN d
    ELSE LET k == o[n]
         IN TickLoop(
              IF t - d.state[k].t > HOLD_THRESHOLD_MS
              THEN [state |-> [d.state EXCEPT ![k].long = TRUE],
                    events |-> Append(d.events, KeyStateChange("LongPress", k))]
              ELSE d,
              o, n + 1, t)

\* ChangeDetector::tick
tick(d, o, t) == TickLoop(d, o, 1, t)

\* analyze, "Retrieve released keys": the keys of state in the order o
RECURSIVE ReleasedLoop(_, _, _, _)
ReleasedLoop(d, o, n, input) ==
    IF n > Len(o) THEN d
    ELSE ReleasedLoop(
           IF o[n] \notin input /\ has_state(o[n])
           THEN [d EXCEPT !.events = Append(@, KeyStateChange("Released", o[n]))]
           ELSE d,
           o, n + 1, input)

\* analyze, "Retrieve pressed keys": the buttons of input in the order o
RECURSIVE PressedLoop(_, _, _, _)
PressedLoop(d, o, n, t) ==
    IF n > Len(o) THEN d
    ELSE LET k == o[n]
             d1 == IF k \notin DOMAIN d.state \/ ~has_state(k)
                   THEN [d EXCEPT !.events =
                           Append(@, KeyStateChange(IF has_state(k) THEN "Pressed"
                                                    ELSE "Click", k))]
                   ELSE d
             d2 == IF /\ k \in DOMAIN d1.state
                      /\ has_state(k)
                      /\ t - d1.state[k].t > HOLD_THRESHOLD_MS
                   THEN [state |-> [d1.state EXCEPT ![k].long = TRUE],
                         events |-> Append(d1.events, KeyStateChange("LongPress", k))]
                   ELSE d1
         IN PressedLoop(d2, o, n + 1, t)

\* an analyze that forgets the buttons it tracked
Retain_forgets(st, input, t) ==
    [k \in {b \in input : b \notin DOMAIN st} |-> [t |-> t, long |-> FALSE]]

\* analyze, "Keep the last known state" and "Insert all newly pressed keys"
Retain(st, input, t) ==
    [k \in input |-> IF k \in DOMAIN st THEN st[k] ELSE [t |-> t, long |-> FALSE]]

\* ChangeDetector::analyze, the keys of state handed out in the order o
analyze(d, o, input, t) ==
    LET d1 == ReleasedLoop(d, o, 1, input)
        d2 == PressedLoop(d1, EnumOrder(input), 1, t)
    IN [state |-> Retain(d2.state, input, t), events |-> d2.events]

\* the value analyze returns: a new stateful press was detected
new_presses_detected(st, input) ==
    \E k \in input : k \notin DOMAIN st /\ has_state(k)

\* ChangeDetector::next: Vec::pop
next(ev) ==
    IF ev = <<>> THEN [ret |-> None, events |-> ev]
    ELSE [ret |-> ev[Len(ev)], events |-> SubSeq(ev, 1, Len(ev) - 1)]

\* where the events taken so far leave each stateful button once ev is taken
\* too: "down" after Pressed, "long" after a LongPress that followed it, up
\* (no entry) after Released, "bad" for good after an event out of turn
PhaseAfter(ph, ev) ==
    IF ev = None \/ ~has_state(ev.k) THEN ph
    ELSE LET cur == IF ev.k \in DOMAIN ph THEN ph[ev.k] ELSE "up"
             new == CASE ev.kind = "Pressed" -> IF cur = "up" THEN "down" ELSE "bad"
                      [] ev.kind = "LongPress" ->
                           IF cur \in {"down", "long"} THEN "long" ELSE "bad"
                      [] ev.kind = "Released" ->
                           IF cur \in {"down", "long"} THEN "up" ELSE "bad"
                      [] OTHER -> "bad"
         IN [k \in (IF new = "up" THEN DOMAIN ph \ {ev.k} ELSE DOMAIN ph \cup {ev.k})
               |-> IF k = ev.k THEN new ELSE ph[k]]

has_pressed == DOMAIN state # {}
has_short_pressed == \E k \in DOMAIN state : ~state[k].long

\* the detector as the loops above take it
Detector == [state |-> state, events |-> events]

\* the switcher is left alone by the detector
Idle ==
    UNCHANGED <<cfg, layer_stack, presses, emitted_codes, abort, held,
                wellformed, hostDown, unreleased, layerPromoted, last, pair,
                rendered>>

\* the instants of the calls do not go back
Later(dt) ==
    /\ now + dt <= MaxTime
    /\ now' = now + dt

Analyze ==
    \E input \in SUBSET Buttons, dt \in Steps, o \in Orders(DOMAIN state) :
       /\ Len(events) <= MaxBuffered
       /\ Later(dt)
       /\ state' = analyze(Detector, o, input, now').state
       /\ events' = analyze(Detector, o, input, now').events
       /\ got' = got
       /\ phase' = phase
       /\ drained' = (drained /\ events = <<>>)
       /\ Idle

Tick ==
    \E dt \in Steps, o \in Orders(DOMAIN state) :
       /\ Len(events) <= MaxBuffered
       /\ Later(dt)
       /\ state' = tick(Detector, o, now').state
       /\ events' = tick(Detector, o, now').events
       /\ got' = got
       /\ phase' = phase
       /\ drained' = (drained /\ events = <<>>)
       /\ Idle

NextEvent ==
    /\ got' = next(events).ret
    /\ phase' = PhaseAfter(phase, next(events).ret)
    /\ drained' = drained
    /\ events' = next(events).events
    /\ UNCHANGED <<state, now>>
    /\ Idle

InitCD == Init /\ cfg = CfgHold

NextCD == Analyze \/ Tick \/ NextEvent

SpecCD == InitCD /\ [][NextCD]_vars

----------------------------------------------------------------------------
(* Properties *)

IsActive(i) == ~IsInactive(layer_stack[i].status)

\* get_active_layers, as a set
ActiveLayers == {i \in DOMAIN layer_stack : IsActive(i)}

\* nothing is held, nothing is recorded, no active layer holds keys down
Quiescent ==
    /\ Started
    /\ held = {}
    /\ presses = <<>>
    /\ \A i \in ActiveLayers : layers[i].on_active_keys = <<>>

\* C1: whenever no coordinate is physically held, the press table is empty
\* and every active layer has empty on_active_keys, no keycode's most recent
\* emission is a key-down: no key is left held at the host.
C1_NoKeyLeftHeld == (wellformed /\ Quiescent) => hostDown = {}

\* the keycodes of the key-downs (pressed = TRUE) or key-ups emitted for
\* coordinate k, in emission order
RECURSIVE KeysOf(_, _, _)
KeysOf(em, k, pressed) ==
    IF em = <<>> THEN <<>>
    ELSE (IF em[1][3] = k /\ em[1][2] = pressed THEN <<em[1][1]>> ELSE <<>>)
         \o KeysOf(Tail(em), k, pressed)

\* the step is a call of process_keyevent with an event of this kind
IsCall(kind) ==
    /\ abort = "none"
    /\ Started
    /\ emitted_codes = <<>>
    /\ last'.kind = kind

\* C2: when a press was recorded under layer L with a chord (non-sequential)
\* key group and L has been deactivated before the release (release of its
\* hold key, tap retirement, Ldeactivate, Ldisable, Lmove), Released(k)
\* still emits a key-up for every key of the group, in reverse order, and
\* removes the press record of k.
C2_ReleaseAfterLayerGone ==
    [][(/\ IsCall("Released")
        /\ find_press(presses, last'.k) # 0
        /\ LET press == presses[find_press(presses, last'.k)]
           IN /\ press.mode = Reverse
              /\ ~press.kg.sequential
              /\ ~IsActive(press.layer))
       => LET press == presses[find_press(presses, last'.k)]
          IN /\ KeysOf(last'.out, last'.k, FALSE) = Rev(press.kg.keys)
             /\ find_press(presses', last'.k) = 0]_vars

\* a chord of two keys pressed under a layer is released after that layer
\* was deactivated
C2_Witness ==
    /\ last.kind = "Released"
    /\ last.rec # None
    /\ last.rec.mode = Reverse
    /\ ~last.rec.kg.sequential
    /\ Len(last.rec.kg.keys) = 2
    /\ last.rec.layer # 0
    /\ ~IsActive(last.rec.layer)
    /\ KeysOf(last.out, last.k, FALSE) = Rev(last.rec.kg.keys)

\* C3: from any reachable state, Click(k) at time t leaves the same layer
\* statuses, active_keys flags and press table, and appends the same
\* emissions, as Pressed(k) at t followed by Released(k) at t.  pair.click
\* is what Click(k) yields from the state in which Pressed(k) was received.
C3_ClickIsPressRelease ==
    (pair # Null /\ pair.done /\ pair.same_t)
    => /\ layer_stack = pair.click.ls
       /\ presses = pair.click.pr
       /\ pair.pout \o last.out = pair.click.em

\* a hold-and-tap key pressed and released at one instant: the release
\* deactivates the layer and emits the click of the key group
C3_Witness ==
    /\ pair # Null /\ pair.done /\ pair.same_t
    /\ pair.act.tag = "LhtK"
    /\ last.kind = "Released"
    /\ Len(last.out) = 4
    /\ pair.click.em = last.out

\* what Pressed(k) and the Released(k) that follows it emitted
PairOut == pair.pout \o last.out

\* C4 as stated: for Pressed(k) immediately followed by Released(k), the
\* keycodes of the key-downs emitted for coordinate k are the reverse of
\* the keycodes of the key-ups emitted for it.
C4_DownsReverseUps_Stated ==
    (pair # Null /\ pair.done)
    => KeysOf(PairOut, pair.k, TRUE) = Rev(KeysOf(PairOut, pair.k, FALSE))

\* the action of the press is a sequential key group of two or more keys
IsClickSequence(act) ==
    /\ act.tag \in {"Kg", "Klong", "Khl", "Khtl", "LhtK"}
    /\ act.kg.sequential
    /\ Len(act.kg.keys) >= 2

\* C4 (amended): for Pressed(k) immediately followed by Released(k), unless
\* the press resolved to a sequential key group of two or more keys, the
\* keycodes of the key-downs emitted for coordinate k are the reverse of the
\* keycodes of the key-ups emitted for it.
C4_DownsReverseUps ==
    (pair # Null /\ pair.done /\ ~IsClickSequence(pair.act))
    => KeysOf(PairOut, pair.k, TRUE) = Rev(KeysOf(PairOut, pair.k, FALSE))

\* a chord of two keys went down with the press and up with the release
C4_Witness ==
    /\ pair # Null /\ pair.done
    /\ pair.act.tag = "Kg"
    /\ ~pair.act.kg.sequential
    /\ KeysOf(PairOut, pair.k, TRUE) = <<"CTRL", "D">>
    /\ KeysOf(PairOut, pair.k, FALSE) = <<"D", "CTRL">>

\* C5: after every process_keyevent call, for any sequence of events that
\* process_keyevent accepts, the press table holds at most one record per
\* coordinate.
C5_OnePressPerCoordinate ==
    \A i, j \in DOMAIN presses : presses[i].coords = presses[j].coords => i = j

\* C6: after start() and after every process_keyevent call, for any
\* configuration, also one whose actions name layer 0 as their target, the
\* status of layer 0 is LayerActive.
C6_BaseLayerActive == Started => layer_stack[0].status = LayerActive

\* the cell of layer i at coordinate k, an Inh cell being looked up in the
\* inherit parent whatever the status of the parent
RECURSIVE InheritedCell(_, _, _)
InheritedCell(i, k, seen) ==
    LET c == LayerGetKeyEvent(layers[i], k)
        p == layers[i].inherit
    IN IF c.tag = "Inh" /\ p # NoParent /\ p \notin seen
       THEN InheritedCell(p, k, seen \cup {p})
       ELSE c

\* the layer has an action of its own or of its parents at k
HasAction(i, k) == InheritedCell(i, k, {i}).tag \notin {"Inh", "Pass"}

\* C7: a press is dispatched to the action found by scanning the layers from
\* the highest index to the lowest, skipping Passthrough and Disabled layers;
\* an Inh cell of a scanned layer is looked up at the same coordinate in the
\* inherit parent whatever the parent's status; the press record names the
\* scanned layer, not the parent that supplied the action.
C7_Dispatch ==
    [][IsCall("Pressed")
       => LET k == last'.k
              src == last'.src
              act == last'.act
          IN /\ act # None => IsActive(src)
             /\ \A j \in ActiveLayers : (act = None \/ j > src) => ~HasAction(j, k)
             /\ (act # None /\ HasAction(src, k)) => act = InheritedCell(src, k, {src})
             /\ (act.tag = "Kg" /\ ~act.kg.sequential)
                => presses' = Append(presses, [layer |-> src, coords |-> k,
                                               mode |-> Reverse, kg |-> act.kg,
                                               t |-> now'])
             /\ act.tag \in {"Klong", "Khl", "Khtl"}
                => presses' = Append(presses, [layer |-> src, coords |-> k,
                                               mode |-> ForceClick, kg |-> act.kg,
                                               t |-> now'])
             /\ act.tag \in {"No", "None"} => presses' = presses]_vars

\* a press resolved by the Inh cell of layer 1 in its Disabled parent, layer
\* 2, and recorded under layer 1
C7_Witness ==
    /\ last.kind = "Pressed"
    /\ last.src = 1
    /\ LayerGetKeyEvent(layers[1], last.k) = Inh
    /\ layers[1].inherit = 2
    /\ layer_stack[2].status = LayerDisabled
    /\ last.act = LayerGetKeyEvent(layers[2], last.k)
    /\ last.act.tag = "Kg"
    /\ presses # <<>>
    /\ presses[Len(presses)].layer = 1
    /\ presses[Len(presses)].coords = last.k

\* the topmost active layer
TopActive == CHOOSE i \in ActiveLayers : \A j \in ActiveLayers : j <= i

\* C8: when the cell of the topmost active layer at the coordinate is Pass,
\* the press is resolved by the next lower active layer, whatever the
\* default_action of the layers.
C8_PassFallsThrough ==
    [][(/\ IsCall("Pressed")
        /\ TopActive > 0
        /\ LayerGetKeyEvent(layers[TopActive], last'.k) = Pass)
       => /\ last'.src < TopActive
          /\ <<last'.src, last'.act>> = ScanLayers(layer_stack, last'.k, TopActive - 1)]_vars

\* C9: after a Pressed event that resolves to Lmove(i) with layer i not
\* Disabled, layer i is LayerActive and every layer other than 0 and i is
\* Passthrough or Disabled.
C9_MoveLeavesBaseAndTarget ==
    [][(/\ IsCall("Pressed")
        /\ last'.act.tag = "Lmove"
        /\ layer_stack[last'.act.l].status # LayerDisabled)
       => /\ layer_stack'[last'.act.l].status = LayerActive
          /\ \A j \in DOMAIN layer_stack' :
                j \notin {0, last'.act.l} => IsInactive(layer_stack'[j].status)]_vars

\* layer i is tap-activated and its tap key is still held
TapHeld(i) == layer_stack[i].status.s = "LayerActiveUntilKeyReleaseTap"

\* layer i waits for the one press that it serves
TapArmed(i) == layer_stack[i].status = LayerActiveUntilAnyKeyPress

\* the action is one that asks for layer i to be deactivated
Deactivates(act, i) ==
    \/ act.tag \in {"Ldeactivate", "Ldisable"} /\ act.l = i
    \/ act.tag = "Lmove"

\* every key-down of coordinate k comes before every key-up of a layer's
\* on_active_keys in the emissions em
PayloadFirst(em, k) ==
    \A d, u \in 1..Len(em) :
       (em[d][3] = k /\ em[d][2] /\ em[u][3] = LAYER_KEY /\ ~em[u][2]) => d < u

\* C10: a layer tap-activated by Ltap stays active while the tap key is held,
\* whatever other keys are pressed and released meanwhile (keys whose action
\* asks for the layer to be deactivated apart); the release of the tap key
\* leaves it active; the next Pressed event is still resolved under the tap
\* layer, its payload key-down is emitted before the key-ups of the layer's
\* on_active_keys (for a layer that does not lift them for a press), and
\* after that press the layer is no longer active; Released events never
\* retire the layer.
C10_TapLayer ==
    [][\A i \in DOMAIN layer_stack :
         /\ (/\ TapHeld(i)
             /\ IsCall("Pressed") \/ IsCall("Released")
             /\ last'.k # layer_stack[i].status.c
             /\ ~Deactivates(last'.act, i))
            => layer_stack'[i].status = layer_stack[i].status
         /\ (TapHeld(i) /\ IsCall("Released") /\ last'.k = layer_stack[i].status.c)
            => layer_stack'[i].status = LayerActiveUntilAnyKeyPress
         /\ (TapArmed(i) /\ IsCall("Released"))
            => layer_stack'[i].status = layer_stack[i].status
         /\ (TapArmed(i) /\ i > 0 /\ IsCall("Pressed"))
            => /\ (TopActive = i /\ HasAction(i, last'.k))
                  => /\ last'.src = i
                     /\ last'.act = InheritedCell(i, last'.k, {i})
               /\ ~layers[i].disable_active_on_press
                  => PayloadFirst(last'.out, last'.k)
               /\ IsInactive(layer_stack'[i].status)]_vars

\* C11: when a press retires a layer that is in status
\* LayerActiveUntilAnyKeyPress, the status of the layer becomes
\* LayerPassthrough, not LayerDisabled, so that a later Ltap, LhtL tap or
\* Khtl long press naming the layer activates it again.
C11_RetiredToPassthrough ==
    [][\A i \in DOMAIN layer_stack :
         (/\ IsCall("Pressed")
          /\ TapArmed(i)
          /\ i > 0
          /\ ~(last'.act.tag = "Ldisable" /\ last'.act.l = i)
          /\ IsInactive(layer_stack'[i].status))
         => layer_stack'[i].status = LayerPassthrough]_vars

\* C12: a layer whose status is LayerDisabled never becomes active: no event
\* (Lactivate, Lhold, Ltap, Lmove, LhtL as hold or as tap layer, LhtK, Khl
\* or Khtl long press) changes the status of a Disabled layer before the
\* next start().
C12_DisabledStays ==
    [][\A i \in DOMAIN layer_stack :
         (/\ last'.kind # "start"
          /\ layer_stack[i].status = LayerDisabled)
         => layer_stack'[i].status = LayerDisabled]_vars

\* layer i is held active by a hold-and-tap key
HoldKey(i) == layer_stack[i].status.s = "LayerHoldAndTapKey"

\* the step is a call of process_keyevent with any event
IsAnyCall ==
    IsCall("Pressed") \/ IsCall("Released") \/ IsCall("Click") \/ IsCall("LongPress")

\* C13: for a key k resolving to LhtK(i, kg) with layer i Passthrough,
\* pressed at t0 and released at t1: layer i is active from the press until
\* the release (keys whose action asks for the layer to be deactivated
\* apart); the release deactivates layer i, leaves no press record for k
\* and, iff t1 - t0 < 200 ms, emits kg as a click (key-downs in order, then
\* key-ups in reverse); other keys clicked meanwhile do not cancel the click.
C13_HoldOrClick ==
    [][\A i \in DOMAIN layer_stack :
         /\ (/\ IsCall("Pressed")
             /\ last'.act.tag = "LhtK"
             /\ last'.act.l = i
             /\ layer_stack[i].status = LayerPassthrough)
            => layer_stack'[i].status = LayerHoldAndTapKey(last'.k, now', last'.src)
         /\ (/\ HoldKey(i)
             /\ IsAnyCall
             /\ last'.k # layer_stack[i].status.c
             /\ ~Deactivates(last'.act, i))
            => layer_stack'[i].status = layer_stack[i].status
         /\ (HoldKey(i) /\ IsCall("Released") /\ last'.k = layer_stack[i].status.c)
            => LET st == layer_stack[i].status
                   kg == InheritedCell(st.l, st.c, {st.l}).kg
                   click == now' - st.t < HOLD_THRESHOLD_MS
               IN /\ IsInactive(layer_stack'[i].status)
                  /\ find_press(presses', st.c) = 0
                  /\ KeysOf(last'.out, st.c, TRUE) = IF click THEN kg.keys ELSE <<>>
                  /\ KeysOf(last'.out, st.c, FALSE)
                       = IF click THEN Rev(kg.keys) ELSE <<>>]_vars

\* C14: a press of a key resolving to LhtK(i, kg) followed by its release
\* less than 200 ms later emits kg as a click on the release, whatever the
\* status of layer i was at the time of the press (Passthrough, already
\* active or Disabled).
C14_ClickWhateverTheLayer ==
    (/\ pair # Null
     /\ pair.done
     /\ pair.act.tag = "LhtK"
     /\ now - pair.t < HOLD_THRESHOLD_MS)
    => /\ KeysOf(last.out, pair.k, TRUE) = pair.act.kg.keys
       /\ KeysOf(last.out, pair.k, FALSE) = Rev(pair.act.kg.keys)


\* layer i is held by an LhtL key
HoldTap(i) == layer_stack[i].status.s = "LayerHoldAndTapToL"

\* the key-downs of the on_active_keys of a layer among the emissions em
LayerDowns(em) ==
    KeysOf(em, LAYER_KEY, TRUE)

\* C15, press and hold: the press of LhtL(i, j) with i and j Passthrough
\* makes layer i active for the key, and layer i keeps that status over
\* every call about another key (keys asking for its deactivation apart)
C15_Held(i) ==
    /\ (/\ IsCall("Pressed") /\ last'.act.tag = "LhtL" /\ last'.act.l = i
        /\ layer_stack[i].status = LayerPassthrough
        /\ layer_stack[last'.act.l2].status = LayerPassthrough)
       => layer_stack'[i].status = LayerHoldAndTapToL(last'.k, now', last'.act.l2)
    /\ (HoldTap(i) /\ IsAnyCall /\ last'.k # layer_stack[i].status.c
        /\ ~Deactivates(last'.act, i))
       => layer_stack'[i].status = layer_stack[i].status

\* C15, release: layer i is deactivated; after less than 200 ms layer j
\* (still Passthrough) becomes LayerActiveUntilAnyKeyPress with its
\* on_active_keys pressed, after 200 ms or more layer j is left as it was
C15_Release(i) ==
    (HoldTap(i) /\ IsCall("Released") /\ last'.k = layer_stack[i].status.c)
    => LET st == layer_stack[i].status
           j == st.l
       IN /\ IsInactive(layer_stack'[i].status)
          /\ (now' - st.t < HOLD_THRESHOLD_MS /\ layer_stack[j].status = LayerPassthrough)
             => /\ layer_stack'[j].status = LayerActiveUntilAnyKeyPress
                /\ layer_stack'[j].active_keys
                /\ LayerDowns(last'.out) = layers[j].on_active_keys
          /\ (now' - st.t >= HOLD_THRESHOLD_MS /\ j # i)
             => layer_stack'[j] = layer_stack[j]

\* C15, the armed layer (never the base layer, which is not Passthrough at
\* the press of the LhtL key): it serves exactly the next press and is
\* inactive after it
C15_NextPress(j) ==
    (j > 0 /\ TapArmed(j) /\ IsCall("Pressed")) => IsInactive(layer_stack'[j].status)

\* C15: a key resolving to LhtL(i, j) with i and j Passthrough keeps layer i
\* active between its press and its release, and the release deactivates
\* layer i; released less than 200 ms after the press, layer j becomes
\* LayerActiveUntilAnyKeyPress with its on_active_keys pressed, resolves
\* exactly the next press and is inactive afterwards; released 200 ms or
\* more after the press, layer j is not activated.
C15_HoldOrTapLayer ==
    [][\A i \in DOMAIN layer_stack :
         C15_Held(i) /\ C15_Release(i) /\ C15_NextPress(i)]_vars


\* the press record of coordinate k before the step, None if there is none
RecordOf(k) == FoundPress(presses, k)

\* the Klong action under which the press record of k was made, None if the
\* record was not made for a Klong key
LongKey(k) ==
    IF RecordOf(k) = None THEN None
    ELSE LET c == InheritedCell(RecordOf(k).layer, k, {RecordOf(k).layer})
         IN IF c.tag = "Klong" THEN c ELSE None

\* the emissions of the step for coordinate k are these key-downs and key-ups
Emits(k, downs, ups) ==
    /\ KeysOf(last'.out, k, TRUE) = downs
    /\ KeysOf(last'.out, k, FALSE) = ups

\* C16: over the cycle of a key resolving to Klong(short, long), Pressed
\* emits nothing; the first LongPress accepted more than 200 ms after the
\* press emits the key-downs of long, later LongPress events emit nothing and
\* Released emits the key-ups of long in reverse; without such a LongPress
\* before it, Released emits short as a click. Exactly one of the two groups
\* is emitted, never both, never neither.
C16_ShortOrLong ==
    [][\A k \in Coords :
         /\ (IsCall("Pressed") /\ last'.k = k /\ last'.act.tag = "Klong")
            => /\ Emits(k, <<>>, <<>>)
               /\ FoundPress(presses', k) # None
               /\ FoundPress(presses', k).mode = ForceClick
         /\ (IsCall("LongPress") /\ last'.k = k /\ LongKey(k) # None)
            => IF RecordOf(k).mode = ForceClick /\ now' - RecordOf(k).t > HOLD_THRESHOLD_MS
               THEN /\ Emits(k, LongKey(k).kg2.keys, <<>>)
                    /\ FoundPress(presses', k) # None
                    /\ FoundPress(presses', k).mode = Reverse
               ELSE /\ Emits(k, <<>>, <<>>)
                    /\ presses' = presses
         /\ (IsCall("Released") /\ last'.k = k /\ LongKey(k) # None)
            => /\ IF RecordOf(k).mode = ForceClick
                  THEN Emits(k, LongKey(k).kg.keys, Rev(LongKey(k).kg.keys))
                  ELSE Emits(k, <<>>, Rev(LongKey(k).kg2.keys))
               /\ FoundPress(presses', k) = None]_vars


\* the press records pr that originate from layer i (active_keys_from_layer
\* counts them)
RecordsFrom(pr, i) == {n \in 1..Len(pr) : pr[n].layer = i}

\* layer i lifts its on_active_keys while one of its keys is down
Lifts(i) ==
    layers[i].disable_active_on_press /\ layers[i].on_active_keys # <<>>

\* the on_active_keys of layer i are down at the host
ActiveKeysDown(i) ==
    \E n \in 1..Len(layers[i].on_active_keys) : layers[i].on_active_keys[n] \in hostDown

\* released while held (first half of C17): while a press record originates from a layer
\* with disable_active_on_press, the on_active_keys of the layer are not down
C17_StayReleased ==
    \A i \in DOMAIN layer_stack :
       (Lifts(i) /\ RecordsFrom(presses, i) # {})
       => ~ActiveKeysDown(i) /\ ~layer_stack[i].active_keys

\* re-press (second half of C17): the on_active_keys of a layer that stays active go down
\* again only at the release of the last key recorded from the layer, and
\* they do go down then
C17_RePress ==
    [][\A i \in DOMAIN layer_stack :
         /\ (/\ IsAnyCall /\ Lifts(i) /\ IsActive(i)
             /\ layer_stack'[i].status = layer_stack[i].status
             /\ ~layer_stack[i].active_keys /\ layer_stack'[i].active_keys)
            => /\ IsCall("Released")
               /\ RecordsFrom(presses', i) = {}
               /\ LayerDowns(last'.out) = layers[i].on_active_keys
         /\ (/\ IsCall("Released") /\ Lifts(i) /\ last'.rec # None
             /\ last'.rec.layer = i /\ ~IsInactive(layer_stack'[i].status)
             /\ RecordsFrom(presses', i) = {})
            => layer_stack'[i].active_keys]_vars

\* C17: for a layer with disable_active_on_press = true, while at least one
\* key whose press record originates from that layer is held, the layer's
\* on_active_keys stay released; they are pressed again only when the last
\* such key is released and the layer is still active.
C17_LiftedWhileHeld == []C17_StayReleased /\ C17_RePress


\* the emissions of em for coordinate k, as (keycode, pressed) pairs
RECURSIVE OutOf(_, _)
OutOf(em, k) ==
    IF em = <<>> THEN <<>>
    ELSE (IF em[1][3] = k THEN << <<em[1][1], em[1][2]>> >> ELSE <<>>)
         \o OutOf(Tail(em), k)

\* key-downs, key-ups of the keys in order
Downs(keys) == [n \in 1..Len(keys) |-> <<keys[n], TRUE>>]
Ups(keys) == [n \in 1..Len(keys) |-> <<keys[n], FALSE>>]

\* the payload of a sequential group: each key down and up in turn
Taps(keys) ==
    [n \in 1..(2 * Len(keys)) |-> <<keys[(n + 1) \div 2], n % 2 = 1>>]

\* a whole click of the group bracketed by its mask
MaskedClick(kg) ==
    Ups(kg.mask)
    \o (IF kg.sequential THEN Taps(kg.keys) ELSE Downs(kg.keys) \o Ups(Rev(kg.keys)))
    \o Downs(Rev(kg.mask))

\* C18: a key group with a non-empty mask emits a key-up for each mask key,
\* in order, before its payload key-downs, and presses the mask again
\* (key-downs in reverse order) after its payload key-ups: in the same call
\* for a sequential or force-click group, at Released(k) for a held chord.
C18_MaskBrackets ==
    [][\A k \in Coords :
         /\ (/\ IsCall("Pressed") /\ last'.k = k /\ last'.act.tag = "Kg"
             /\ last'.act.kg.mask # <<>>)
            => OutOf(last'.out, k) =
                 IF last'.act.kg.sequential THEN MaskedClick(last'.act.kg)
                 ELSE Ups(last'.act.kg.mask) \o Downs(last'.act.kg.keys)
         /\ (/\ IsCall("Released") /\ last'.k = k /\ last'.rec # None
             /\ last'.rec.kg.mask # <<>>)
            => OutOf(last'.out, k) =
                 IF last'.rec.mode = ForceClick THEN MaskedClick(last'.rec.kg)
                 ELSE Ups(Rev(last'.rec.kg.keys)) \o Downs(Rev(last'.rec.kg.mask))]_vars

\* a chord with a two-key mask was released, and a force-click group with a
\* two-key mask was clicked at its release
C18_Witness ==
    /\ last.kind = "Released"
    /\ last.rec # None
    /\ Len(last.rec.kg.mask) = 2
    /\ last.rec.mode = Reverse
    /\ last.out # <<>>
C18_ForceClickReached ==
    /\ last.kind = "Released"
    /\ last.rec # None
    /\ Len(last.rec.kg.mask) = 2
    /\ last.rec.mode = ForceClick
    /\ last.out # <<>>


\* no layer waits for the release of coordinate k to click a key group
NoHoldKeyAt(k) ==
    \A i \in DOMAIN layer_stack : ~(HoldKey(i) /\ layer_stack[i].status.c = k)

\* C19: a sequential key group emits, for each key in order, its key-down
\* immediately followed by its key-up and leaves no press record, so the
\* later Released(k) emits nothing; a non-sequential group pressed without
\* force_click emits all its key-downs in order and leaves exactly one
\* record with mode Reverse, and Released(k) emits the key-ups in reverse
\* order.
C19_SequentialOrChord ==
    [][\A k \in Coords :
         /\ (/\ IsCall("Pressed") /\ last'.k = k /\ last'.act.tag = "Kg"
             /\ last'.act.kg.sequential)
            => /\ OutOf(last'.out, k) = MaskedClick(last'.act.kg)
               /\ presses' = presses
         /\ (IsCall("Released") /\ last'.k = k /\ last'.rec = None /\ NoHoldKeyAt(k))
            => /\ OutOf(last'.out, k) = <<>>
               /\ presses' = presses
         /\ (/\ IsCall("Pressed") /\ last'.k = k /\ last'.act.tag = "Kg"
             /\ ~last'.act.kg.sequential)
            => /\ OutOf(last'.out, k) =
                    Ups(last'.act.kg.mask) \o Downs(last'.act.kg.keys)
               /\ presses' = Append(presses,
                                    [layer |-> last'.src, coords |-> k,
                                     mode |-> Reverse, kg |-> last'.act.kg,
                                     t |-> now'])
         /\ (/\ IsCall("Released") /\ last'.k = k /\ last'.rec # None
             /\ last'.rec.mode = Reverse)
            => /\ OutOf(last'.out, k) =
                    Ups(Rev(last'.rec.kg.keys)) \o Downs(Rev(last'.rec.kg.mask))
               /\ Len(presses') = Len(presses) - 1
               /\ FoundPress(presses', k) = None]_vars

\* a sequential group of two keys was pressed and its key released
C19_Witness ==
    /\ pair # Null
    /\ pair.done
    /\ pair.act.tag = "Kg"
    /\ pair.act.kg.sequential
    /\ Len(pair.act.kg.keys) = 2
    /\ last.kind = "Released"
    /\ last.out = <<>>


\* the step is a call of next() that returns an event
Returns == Len(events') < Len(events)

\* C20: ChangeDetector.next() returns the buffered events in detection order
\* (first in, first out): within one analyze call Released events before
\* Pressed, Click and LongPress events, and the events of an earlier call
\* before those of a later call.
C20_DetectionOrder ==
    [][Returns => got' = Head(events)]_vars


\* the events the detector computed for button k, buffered or just returned
EventsOf(k) ==
    {events[n].kind : n \in {m \in 1..Len(events) : events[m].k = k}}
    \cup (IF got \notin {Null, None} /\ got.k = k THEN {got.kind} ELSE {})

\* C21: for a stateless button the detector only ever computes Click events,
\* never Pressed, Released or LongPress, whatever analyze and tick calls are
\* made.
C21_StatelessOnlyClicks ==
    \A k \in Buttons : ~has_state(k) => EventsOf(k) \subseteq {"Click"}


\* the step is a call of render() on a queue that is not empty
IsRender == emitted_codes # <<>> /\ emitted_codes' = <<>> /\ last' = last

\* the step is a call of process_keyevent that passes the assertion
IsQueuedCall ==
    /\ abort = "none"
    /\ Started
    /\ last'.kind \in {"Pressed", "Released", "Click", "LongPress"}
    /\ ~IsRender

\* C22: render() hands the emitted key events to the callback in exactly the
\* order they were emitted, each exactly once, over all the process_keyevent
\* calls made since the previous render; the queue is empty after it, and it
\* changes neither the layer statuses nor the press table.
C22_RenderInOrder ==
    [][/\ IsQueuedCall => emitted_codes' = emitted_codes \o Codes(last'.out)
       /\ IsRender => /\ rendered' = emitted_codes
                      /\ layer_stack' = layer_stack
                      /\ presses' = presses]_vars

\* a render handed over the emissions of more than one call
C22_Witness ==
    /\ emitted_codes = <<>>
    /\ Len(rendered) > Len(last.out)
    /\ last.out # <<>>
    /\ \E a, b \in 1..Len(rendered) : rendered[a] # rendered[b]


\* what a call of process_keyevent may change or emit
Switcher == <<layer_stack, presses, emitted_codes, hostDown, rendered>>

\* C23: process_keyevent on a switcher on which start() was never called
\* aborts on the assertion before any state change or emission; once start()
\* has been called the assertion never fails, whatever events follow.
C23_AssertsBeforeStart ==
    [][/\ (~Started /\ ~Started')
          => (UNCHANGED Switcher /\ abort' \in {abort, "assert"})
       /\ (abort' = "assert" /\ abort # "assert") => ~Started
       /\ abort = "assert" => UNCHANGED vars]_vars

\* the assertion stopped the process before start() was called
C23_Witness == abort = "assert" /\ ~Started /\ emitted_codes = <<>>


\* C24: the resolution of a press terminates for every configuration, also
\* when the inherit links form a cycle over layers whose cell at the pressed
\* coordinate is Inh; the press then behaves like No: nothing is emitted,
\* nothing recorded, and the switcher goes on.
C24_ResolutionTerminates == abort # "loop"


\* the instants a next call of the detector may carry
Instants == {now + dt : dt \in Steps}

\* C25: the machine is deterministic: the events the detector computes for a
\* snapshot and an instant (and with them what the switcher is fed and
\* emits) are the same in every run, in particular the order of the events
\* of several buttons released or long-pressed in the same call is fixed: it
\* does not depend on the order in which the HashMap hands out its keys.
C25_Deterministic ==
    \A o1, o2 \in Orders(DOMAIN state), t \in Instants :
       /\ \A input \in SUBSET Buttons :
             analyze(Detector, o1, input, t) = analyze(Detector, o2, input, t)
       /\ tick(Detector, o1, t) = tick(Detector, o2, t)


\* C26: get_active_layers() returns, in strictly ascending index order,
\* exactly the layers whose status is neither Passthrough nor Disabled, and
\* after start() the result always contains layer 0.
C26_ActiveLayersListed ==
    LET active == get_active_layers(layer_stack)
    IN /\ \A a, b \in 1..Len(active) : a < b => active[a] < active[b]
       /\ {active[a] : a \in 1..Len(active)} =
            {i \in DOMAIN layer_stack : ~IsInactive(layer_stack[i].status)}
       /\ Started => \E a \in 1..Len(active) : active[a] = 0

\* two layers above the base layer are active, after a call
C26_Witness ==
    /\ Len(get_active_layers(layer_stack)) = 3
    /\ last.kind \in {"Pressed", "Released", "Click", "LongPress"}


\* the key-downs of keycode key emitted for coordinate k and not yet followed
\* by its key-up
Unreleased(k, key) ==
    IF <<k, key>> \in DOMAIN unreleased THEN unreleased[<<k, key>>] ELSE 0

\* every keycode of the record's group has exactly one unreleased key-down
OneDownPerKey(rec) ==
    \A n \in 1..Len(rec.kg.keys) : Unreleased(rec.coords, rec.kg.keys[n]) = 1

\* C27 as stated: after every process_keyevent call, for every record in the
\* press table whose key group is non-sequential, each keycode of the
\* record's kg.keys has exactly one key-down emitted for that coordinate that
\* has not yet been followed by its key-up.
C27_RecordsAreDown_Stated ==
    \A n \in 1..Len(presses) :
       ~presses[n].kg.sequential => OneDownPerKey(presses[n])

\* the records with mode Reverse of coordinate k whose group lists key
ReverseRecords(k, key) ==
    {n \in 1..Len(presses) :
       /\ presses[n].coords = k /\ presses[n].mode = Reverse
       /\ \E m \in 1..Len(presses[n].kg.keys) : presses[n].kg.keys[m] = key}

\* C27, amended: every record with mode Reverse has a non-sequential group,
\* and each keycode of any record has as many unreleased key-downs for the
\* record's coordinate as the table holds Reverse records of that coordinate
\* listing it: one per Reverse record, and none for a ForceClick record
\* (Klong, Khl, Khtl before their release or promotion).
C27_RecordsAreDown ==
    \A n \in 1..Len(presses) :
       LET rec == presses[n]
       IN /\ rec.mode = Reverse => ~rec.kg.sequential
          /\ \A m \in 1..Len(rec.kg.keys) :
                Unreleased(rec.coords, rec.kg.keys[m]) =
                   Cardinality(ReverseRecords(rec.coords, rec.kg.keys[m]))

\* a chord of two keys is recorded and both its keys are down
C27_Witness ==
    \E n \in 1..Len(presses) :
       /\ presses[n].mode = Reverse
       /\ Len(presses[n].kg.keys) = 2
       /\ OneDownPerKey(presses[n])


\* the records of the press table made for coordinate k
RecordsAt(k) == {n \in 1..Len(presses) : presses[n].coords = k}

\* C28: while the event sequence is well formed (per coordinate Pressed and
\* Released alternate starting with Pressed, LongPress only for a held
\* coordinate, Click only for one not held), the press table holds at most
\* one record per coordinate after every call; a Klong promotion leaves the
\* Reverse record of the long group as the only record of its coordinate.
C28_OneRecordWhenWellFormed ==
    wellformed =>
       \A k \in Coords : Cardinality(RecordsAt(k)) <= 1

\* a Klong key was promoted by a long press: its ForceClick record is gone
\* and the Reverse record of the long group stands for the coordinate
C28_Witness ==
    /\ wellformed
    /\ last.kind = "LongPress"
    /\ last.rec # None /\ last.rec.mode = ForceClick
    /\ RecordOf(last.k) # None
    /\ RecordOf(last.k).mode = Reverse
    /\ LET ev == LayerGetKeyEvent(layers[last.rec.layer], last.k)
       IN ev.tag = "Klong" /\ RecordOf(last.k).kg = ev.kg2


\* the layer statuses once the press of the step's event has been processed:
\* those of the next state for Pressed, those between the press and the
\* release of a Click
AfterPress ==
    IF last'.kind = "Click"
    THEN process_keyevent_press(Cur, last'.k, now').ls
    ELSE layer_stack'

\* C29: every Pressed or Click event, whatever it resolves to, also a
\* coordinate for which no active layer yields an action, deactivates every
\* layer that was LayerActiveUntilAnyKeyPress when the press was processed.
C29_PressRetiresTapLayers ==
    [][(IsCall("Pressed") \/ IsCall("Click")) =>
         \A i \in DOMAIN layer_stack :
            layer_stack[i].status = LayerActiveUntilAnyKeyPress
               => IsInactive(AfterPress[i].status)]_vars


\* C30: a layer in status LayerActive leaves that status only in a call whose
\* press dispatches Ldeactivate, Ldisable or Lmove; every other call, also
\* one whose hold or tap action names the layer (Lhold, Ltap, LhtL, LhtK,
\* the long press of Khtl), leaves its status LayerActive.
C30_ActiveStaysActive ==
    [][\A i \in DOMAIN layer_stack :
         (/\ IsAnyCall
          /\ layer_stack[i].status = LayerActive
          /\ layer_stack'[i].status # LayerActive)
         => /\ last'.kind \in {"Pressed", "Click"}
            /\ last'.act.tag \in {"Ldeactivate", "Ldisable", "Lmove"}]_vars


\* the emissions em, made with the counts u of unreleased key-downs, press
\* the keys of the layers (coordinate LAYER_KEY) only while they are up and
\* release them only while they are down
RECURSIVE Alternates(_, _)
Alternates(u, em) ==
    IF em = <<>> THEN TRUE
    ELSE LET p == <<em[1][3], em[1][1]>>
             n == IF p \in DOMAIN u THEN u[p] ELSE 0
         IN /\ em[1][3] = LAYER_KEY => (IF em[1][2] THEN n = 0 ELSE n = 1)
            /\ Alternates(UnreleasedAfter(u, <<em[1]>>), Tail(em))

\* the on_active_keys of layer i have been emitted down and not yet up
OnActiveKeysDown(i) ==
    \A n \in 1..Len(layers[i].on_active_keys) :
       <<LAYER_KEY, layers[i].on_active_keys[n]>> \in DOMAIN unreleased

\* C31: the key events emitted for the on_active_keys of a layer alternate,
\* key-downs only while the keys are up and key-ups only while they are
\* down, and after every call the active_keys flag of a layer with
\* on_active_keys is true exactly when those keys have been emitted down and
\* not yet up.
C31_ActiveKeysAlternate ==
    [][IsAnyCall =>
         /\ Alternates(unreleased, last'.out)
         /\ \A i \in DOMAIN layer_stack :
               layers[i].on_active_keys # <<>>
                  => (layer_stack'[i].active_keys <=> OnActiveKeysDown(i)')]_vars


\* the Klong key k was promoted by a long press and is still held: its
\* record is the Reverse record of the long group
Promoted(k) ==
    /\ RecordOf(k) # None
    /\ RecordOf(k).mode = Reverse
    /\ LET ev == LayerGetKeyEvent(layers[RecordOf(k).layer], k)
       IN ev.tag = "Klong" /\ RecordOf(k).kg = ev.kg2

\* C32: after a Klong key was promoted by a LongPress, every further
\* LongPress of the key before its release, however long after the
\* promotion, emits nothing and leaves the press table and the layer
\* statuses unchanged.
C32_PromotedOnce ==
    [][(IsCall("LongPress") /\ Promoted(last'.k)) =>
         /\ last'.out = <<>>
         /\ presses' = presses
         /\ layer_stack' = layer_stack]_vars

\* a LongPress arrived more than 200 ms after the promotion of its key
C32_Witness ==
    /\ last.kind = "LongPress"
    /\ Promoted(last.k)
    /\ last.rec = RecordOf(last.k)
    /\ now - RecordOf(last.k).t > HOLD_THRESHOLD_MS


\* C33: after a LongPress promoted a key resolving to Khl(short, l) or
\* Khtl(short, l) (record deleted, layer l activated or tap-activated), the
\* following Released of the key emits nothing, short included, and changes
\* no layer status: for Khl a layer l that is LayerActive stays LayerActive.
C33_PromotedReleaseIsSilent ==
    [][(IsCall("Released") /\ last'.k \in layerPromoted) =>
         /\ last'.out = <<>>
         /\ presses' = presses
         /\ \A i \in DOMAIN layer_stack :
               layer_stack'[i].status = layer_stack[i].status]_vars

\* the Khl key of a layer was promoted and released: the layer is active
C33_Witness ==
    /\ last.kind = "Released"
    /\ last.k \in layerPromoted
    /\ last.rec = None
    /\ last.out = <<>>
    /\ \E i \in DOMAIN layer_stack :
          /\ i > 0
          /\ layer_stack[i].status = LayerActive
          /\ \E j \in DOMAIN layers :
                LET ev == LayerGetKeyEvent(layers[j], last.k)
                IN ev.tag = "Khl" /\ ev.l = i


\* the step leaves the state of the switcher as it was and emits nothing
NoEffect ==
    /\ last'.out = <<>>
    /\ presses' = presses
    /\ layer_stack' = layer_stack

\* C34: process_keyevent(LongPress(k), t) changes no state and emits nothing
\* when t minus the time of the press record of k is at most 200 ms; a Klong,
\* Khl or Khtl record is promoted only when the difference is above 200 ms.
C34_LongPressThreshold ==
    [][(/\ IsCall("LongPress")
        /\ RecordOf(last'.k) # None
        /\ now' - RecordOf(last'.k).t <= HOLD_THRESHOLD_MS) => NoEffect]_vars

\* a LongPress arrived exactly 200 ms after the press of a Klong, Khl or
\* Khtl key and left its ForceClick record in place
C34_Witness ==
    /\ last.kind = "LongPress"
    /\ last.rec # None
    /\ last.rec.mode = ForceClick
    /\ now - last.rec.t = HOLD_THRESHOLD_MS
    /\ RecordOf(last.k) = last.rec
    /\ last.out = <<>>


\* C38: process_keyevent(LongPress(k), t) when the press table holds no
\* record for k (never pressed, already released, or its Khl or Khtl record
\* already promoted) emits nothing and leaves the layer statuses, the
\* active_keys flags and the press table unchanged.
C38_LongPressWithoutRecord ==
    [][(IsCall("LongPress") /\ RecordOf(last'.k) = None) =>
         /\ last'.out = <<>>
         /\ emitted_codes' = emitted_codes
         /\ presses' = presses
         /\ \A i \in DOMAIN layer_stack :
               /\ layer_stack'[i].status = layer_stack[i].status
               /\ layer_stack'[i].active_keys = layer_stack[i].active_keys]_vars

\* a LongPress arrived for a key whose Khl or Khtl record was promoted
\* before, more than 200 ms after its press
C38_Witness ==
    /\ last.kind = "LongPress"
    /\ last.rec = None
    /\ last.k \in layerPromoted
    /\ last.k \in held
    /\ RecordOf(last.k) = None


\* the step is a call of start()
IsStart == abort = "none" /\ last'.kind = "start"

\* C39: start() called after any sequence of events restores the state of
\* the first start(): every layer has its status_on_reset (layer 0
\* LayerActive), the press table and the emission queue are empty; start()
\* called right after start() changes nothing.
C39_StartResets ==
    [][IsStart =>
         /\ DOMAIN layer_stack' = DOMAIN layers
         /\ \A i \in DOMAIN layers :
               layer_stack'[i].status =
                  IF i = 0 THEN LayerActive ELSE layers[i].status_on_reset
         /\ presses' = <<>>
         /\ emitted_codes' = <<>>
         /\ last.kind = "start" =>
               /\ layer_stack' = layer_stack
               /\ presses' = presses
               /\ emitted_codes' = emitted_codes]_vars

\* start() was called after events that took the clock to its last instant
C39_Witness ==
    /\ last.kind = "start"
    /\ now = MaxTime
    /\ presses = <<>>
    /\ \E i \in DOMAIN layer_stack : i > 0 /\ layer_stack[i].status = LayerPassthrough


\* the step is a call of analyze or tick: events are added to the buffer,
\* none is taken out
IsDetection ==
    /\ got' = got
    /\ Len(events') >= Len(events)
    /\ SubSeq(events', 1, Len(events)) = events

\* the events the call of the step added to the buffer
NewEvents == SubSeq(events', Len(events) + 1, Len(events'))

\* how many events of this kind for button k the call of the step added
Added(kind, k) ==
    Cardinality({n \in 1..Len(NewEvents) : NewEvents[n] = KeyStateChange(kind, k)})

\* C35: for a stateful button k that is tracked and stays tracked over a call
\* of analyze or tick, the call emits LongPress(k), once, exactly when its
\* instant is more than 200 ms after the press instant of k, on every such
\* call; the press instant is the instant of the analyze call that first saw
\* k and does not change while k stays tracked; no LongPress(k) is emitted
\* for a stateful button that was not tracked or is no longer.
C35_LongPressAfterThreshold ==
    [][IsDetection =>
         \A k \in {b \in Buttons : has_state(b)} :
            /\ (k \in DOMAIN state /\ k \in DOMAIN state')
               => /\ Added("LongPress", k) =
                       IF now' - state[k].t > HOLD_THRESHOLD_MS THEN 1 ELSE 0
                  /\ state'[k].t = state[k].t
            /\ (k \notin DOMAIN state /\ k \in DOMAIN state') => state'[k].t = now'
            /\ (k \notin DOMAIN state \/ k \notin DOMAIN state')
               => Added("LongPress", k) = 0]_vars

\* a button held for more than 200 ms had its LongPress emitted by two calls
C35_Witness ==
    \E k \in DOMAIN state :
       /\ has_state(k)
       /\ now - state[k].t > HOLD_THRESHOLD_MS
       /\ Len(events) >= 2
       /\ events[Len(events)] = KeyStateChange("LongPress", k)
       /\ events[Len(events) - 1] = KeyStateChange("LongPress", k)


\* C36: when the consumer empties the buffer with next() after every call of
\* analyze or tick, the events delivered for a stateful button alternate
\* Pressed, Released, Pressed, ... starting with Pressed, and LongPress(k) is
\* delivered only between a Pressed(k) and the Released(k) that follows it.
C36_DeliveredInTurn ==
    drained => \A k \in DOMAIN phase : phase[k] # "bad"

\* with the buffer emptied after every call, the Released of one button was
\* delivered in its turn while another is held with its LongPress delivered
C36_Witness ==
    /\ drained
    /\ got # Null /\ got # None
    /\ got.kind = "Released"
    /\ got.k \notin DOMAIN phase
    /\ events = <<>>
    /\ \E k \in DOMAIN phase : k # got.k /\ phase[k] = "long"


\* C37: after analyze(input, t) the buttons the detector tracks are the
\* stateful buttons of input, a stateless button is never tracked, so that
\* has_pressed() is true exactly when a stateful button is tracked as down.
C37_TracksStatefulOnly ==
    /\ \A k \in DOMAIN state : has_state(k)
    /\ has_pressed <=> \E k \in DOMAIN state : has_state(k)

====
